---- MODULE Spec2Model ----
(***************************************************************************)
(* Card-requirement matching and scoring engine of ts-webscraper: the      *)
(* library normalizer (getCardLibrary), the name resolver                  *)
(* (extractPlayerNames), the exact-key index (playerLookup), the           *)
(* requirement matcher (findMatchingCard and its predicates) and the       *)
(* scorer (analyzeChallenge, generateRecommendations); the storage of an   *)
(* analysis (saveAnalysisResults, getPreviousAnalysis); and the analyzers  *)
(* that ask a language model and fall back on rule-based matching          *)
(* (analyzeChallengeWithHF, analyzeChallengeWithOllama).                   *)
(*                                                                         *)
(* JavaScript strings are TLA+ strings; Len, SubSeq and \o act on them     *)
(* character by character.                                                 *)
(***************************************************************************)
EXTENDS Integers, Sequences, FiniteSets, TLC

----------------------------------------------------------------------------
(* String primitives of the JavaScript runtime used by the analyzer.       *)

UpperChars == "ABCDEFGHIJKLMNOPQRSTUVWXYZ"
LowerChars == "abcdefghijklmnopqrstuvwxyz"
DigitChars == "0123456789"

CharAt(s, i) == SubSeq(s, i, i)

\* F applied to the value of v: v is evaluated once, as a JavaScript
\* argument or const is, however often F reads it.
Strict(v, F(_)) == CHOOSE r \in {F(x) : x \in {v}} : TRUE

\* The same for two values.
Strict2(v, w, F(_, _)) == CHOOSE r \in {F(x, y) : x \in {v}, y \in {w}} : TRUE

\* String.prototype.includes: sub occurs in s as a contiguous substring
\* (the empty string occurs in every string).
Includes(s, sub) ==
    \E i \in 1..(Len(s) - Len(sub) + 1) : SubSeq(s, i, i + Len(sub) - 1) = sub

LowerChar(c) ==
    IF \E i \in 1..Len(UpperChars) : CharAt(UpperChars, i) = c
    THEN CharAt(LowerChars, CHOOSE i \in 1..Len(UpperChars) : CharAt(UpperChars, i) = c)
    ELSE c

RECURSIVE ToLowerCase(_)
\* String.prototype.toLowerCase on ASCII text.
ToLowerCase(s) ==
    IF s = "" THEN "" ELSE LowerChar(Head(s)) \o ToLowerCase(Tail(s))

IsAlnumLower(c) == Includes(LowerChars, c) \/ Includes(DigitChars, c)

RECURSIVE StripNonAlnum(_)
\* replace(/[^a-z0-9]/g, '')
StripNonAlnum(s) ==
    IF s = "" THEN ""
    ELSE (IF IsAlnumLower(Head(s)) THEN Head(s) ELSE "") \o StripNonAlnum(Tail(s))

\* card.player_name.toLowerCase().replace(/[^a-z0-9]/g, '')
CleanName(s) == StripNonAlnum(ToLowerCase(s))

RECURSIVE TrimLeft(_)
TrimLeft(s) == IF s # "" /\ Head(s) = " " THEN TrimLeft(Tail(s)) ELSE s

RECURSIVE TrimRight(_)
TrimRight(s) ==
    IF s # "" /\ CharAt(s, Len(s)) = " " THEN TrimRight(SubSeq(s, 1, Len(s) - 1)) ELSE s

\* String.prototype.trim (the only whitespace of the modelled texts is ' ').
Trim(s) == TrimRight(TrimLeft(s))

\* String.prototype.indexOf(sep, from - 1) + 1: the first position >= from
\* at which sep occurs in s, 0 when there is none.
IndexOfFrom(s, sep, from) ==
    LET at(k) == SubSeq(s, k, k + Len(sep) - 1) = sep
        last == Len(s) - Len(sep) + 1
    IN  IF \E k \in from..last : at(k)
        THEN CHOOSE k \in from..last : at(k) /\ \A j \in from..(k - 1) : ~at(j)
        ELSE 0

RECURSIVE SplitFrom(_, _, _)
SplitFrom(s, sep, from) ==
    Strict(IndexOfFrom(s, sep, from), LAMBDA i :
        IF i = 0 THEN <<SubSeq(s, from, Len(s))>>
        ELSE <<SubSeq(s, from, i - 1)>> \o SplitFrom(s, sep, i + Len(sep)))

\* String.prototype.split(sep) with a non-empty separator and no limit:
\* every occurrence of sep, scanned left to right, ends a segment.
Split(s, sep) == Strict(s, LAMBDA text : SplitFrom(text, sep, 1))

\* remainingParts[i] || '' : an absent or empty element reads as ''.
ElemOrEmpty(seq, i) == IF i <= Len(seq) THEN seq[i] ELSE ""

Min2(a, b) == IF a < b THEN a ELSE b

----------------------------------------------------------------------------
(* The inputs: rows of the documents table and challenges.                 *)

MaxLib == 2    \* most rows in the documents table
MaxReq == 2    \* most requirements in a challenge
MaxRuns == 2   \* most calls of analyzeChallenge on one snapshot

\* Contents of rows the matcher is run on: a Common and a Rare card of one
\* player, a Rare card of another, a record without ' - ' and a well-formed
\* record of a player called Unknown.
Contents ==
    { [content |-> "Pascal Siakam - Dunk - May 1, 2025 Playoffs, IND",
       content_type |-> "string"],
      [content |-> "Pascal Siakam - Dunk - May 1, Base Set LE, IND",
       content_type |-> "string"],
      [content |-> "Jalen Williams - Layup - May 2, 2025 Playoffs LE, OKC",
       content_type |-> "string"],
      [content |-> "justonestring", content_type |-> "string"],
      [content |-> "Unknown - Block - May 3, 2025 Playoffs, IND",
       content_type |-> "string"] }

\* Further contents the normalizer alone is run on: a Metallic Gold series,
\* a record with two segments, one with a fourth ' - ' segment, and a
\* content that is no string (null, or a stored moment object).
NormalizerContents ==
    Contents \cup
    { [content |-> "Pascal Siakam - Dunk - May 1, 2025 Playoffs Metallic Gold, IND",
       content_type |-> "string"],
      [content |-> "Obi Toppin - Dunk", content_type |-> "string"],
      [content |-> "Obi Toppin - Dunk - May 4, Base Set - LE, NYK",
       content_type |-> "string"],
      [content |-> "null", content_type |-> "object"] }

Requirements ==
    { [title |-> "Pascal Siakam Common Moment", rarity |-> "Common or higher tier"],
      [title |-> "Pascal Siakam Moment", rarity |-> "2025 NBA Playoffs"],
      [title |-> "Jalen Williams or Pascal Siakam", rarity |-> "Common"],
      [title |-> "Unknown Moment", rarity |-> "Common"],
      [title |-> "Unknown Moment", rarity |-> "2025 NBA Playoffs"],
      [title |-> "Constructor Dunk", rarity |-> "Rare"] }

\* Contents of rows a single requirement is matched against: three cards of
\* the player known as SGA (Common and Rare, playoffs and base series), a
\* record without ' - ' and a Rare card of a player called Unknown.
MatchContents ==
    { [content |-> "Shai Gilgeous-Alexander - Layup - May 5, 2025 Playoffs, OKC",
       content_type |-> "string"],
      [content |-> "Shai Gilgeous-Alexander - Layup - May 5, Base Set LE, OKC",
       content_type |-> "string"],
      [content |-> "Shai Gilgeous-Alexander - Layup - May 5, Base Set, OKC",
       content_type |-> "string"],
      [content |-> "justonestring", content_type |-> "string"],
      [content |-> "Unknown - Block - May 3, Base Set LE, IND",
       content_type |-> "string"] }

\* Requirements matched one at a time: the alias in several letter cases
\* and beside the full name, rarity texts with a tier, with the playoffs
\* phrase, with both, titles that start with a short word or are empty,
\* and titles of unknown players.
MatchRequirements ==
    { [title |-> "SGA Moment", rarity |-> "Common"],
      [title |-> "sga dunk", rarity |-> "Rare"],
      [title |-> "Sga Top Shot", rarity |-> "Common or higher tier"],
      [title |-> "Shai Gilgeous-Alexander SGA Moment", rarity |-> "Common"],
      [title |-> "SGA Moment", rarity |-> "Common 2025 NBA Playoffs"],
      [title |-> "SGA Moment", rarity |-> "2025 NBA Playoffs"],
      [title |-> "Unknown Moment", rarity |-> "Common 2025 NBA Playoffs"],
      [title |-> "Unknown Moment", rarity |-> "Common"],
      [title |-> "A Wemby Dunk", rarity |-> "Common"],
      [title |-> "Wemby Dunk", rarity |-> "Rare"],
      [title |-> "", rarity |-> "Common"],
      [title |-> "Constructor Dunk", rarity |-> "Rare"] }

\* All contents and requirements of the model.
ModelledContents == NormalizerContents \cup MatchContents

ModelledRequirements == Requirements \cup MatchRequirements

SeqsUpTo(S, n) == UNION {[1..k -> S] : k \in 0..n}

\* The table ordered by id (.order('id')); ids are distinct and leave
\* room for a row inserted between two others.
Row(c, id) == [id |-> id, content |-> c.content, content_type |-> c.content_type]

\* The ids of the rows of a fresh table: ascending, with room between them
\* for rows inserted later.
IdOf(i) == 16 * i

TablesOver(contents) ==
    {[i \in 1..Len(cs) |-> Row(cs[i], IdOf(i))] : cs \in SeqsUpTo(contents, MaxLib)}

DocumentTables == TablesOver(Contents)

Challenges ==
    {[id |-> "ch1", required_cards |-> rs] : rs \in SeqsUpTo(Requirements, MaxReq)}

----------------------------------------------------------------------------
(* Card Library Normalizer: getCardLibrary.                                *)
(* A row of the documents table is [id, content, content_type]; content    *)
(* is the text of a string content, content_type is JavaScript's typeof    *)
(* of the stored value ("string", or "object" for a stored moment object). *)

\* A variant of the rule that knows the LE series only.
inferRarityFromLE(series) ==
    IF Includes(series, "LE") THEN "Rare" ELSE "Common"

\* series.includes('Metallic Gold') ? 'Rare' : series.includes('LE') ? 'Rare' : 'Common'
inferRarity(series) ==
    IF Includes(series, "Metallic Gold") THEN "Rare"
    ELSE IF Includes(series, "LE") THEN "Rare" ELSE "Common"

\* The placeholder of a record with fewer than three ' - ' segments: it
\* carries no play_type, series, team or rarity.
UnknownCard(doc) ==
    [id |-> doc.id, player_name |-> "Unknown", original_content |-> doc.content]

\* The placeholder the catch block of the try/catch variants returns.
ParseErrorCard(doc) ==
    [id |-> doc.id, player_name |-> "Parse Error", original_content |-> doc.content]

\* content.split(' - ') raises a TypeError when content is not a string.
parseThrows(doc) == doc.content_type # "string"

\* A variant of the map callback that splits into three segments and keeps
\* in the third everything after the second ' - '.
parseCardKeepingRemainder(doc) ==
    LET parts == Split(doc.content, " - ")
        second == IndexOfFrom(doc.content, " - ", IndexOfFrom(doc.content, " - ", 1) + 3)
    IN  IF Len(parts) >= 3
        THEN LET remaining == SubSeq(doc.content, second + 3, Len(doc.content))
                 remainingParts == Split(Trim(remaining), ", ")
                 series == ElemOrEmpty(remainingParts, 2)
             IN  [id |-> doc.id,
                  player_name |-> Trim(parts[1]),
                  play_type |-> Trim(parts[2]),
                  series |-> series,
                  team |-> ElemOrEmpty(remainingParts, 3),
                  rarity |-> inferRarity(series),
                  original_content |-> doc.content]
        ELSE UnknownCard(doc)

\* The body of the map callback for a string content.
parseCard(doc) ==
    LET parts == Split(doc.content, " - ")
    IN  IF Len(parts) >= 3
        THEN LET remainingParts == Split(Trim(parts[3]), ", ")
                 series == ElemOrEmpty(remainingParts, 2)
             IN  [id |-> doc.id,
                  player_name |-> Trim(parts[1]),
                  play_type |-> Trim(parts[2]),
                  series |-> series,
                  team |-> ElemOrEmpty(remainingParts, 3),
                  rarity |-> inferRarity(series),
                  original_content |-> doc.content]
        ELSE UnknownCard(doc)

\* parseCard over the modelled contents, computed once; the id is the row's.
parseCardTable ==
    [c \in {x.content : x \in {y \in ModelledContents : y.content_type = "string"}} |->
        parseCard([id |-> 0, content |-> c, content_type |-> "string"])]

parseCardOf(doc) ==
    IF doc.content \in DOMAIN parseCardTable
    THEN [parseCardTable[doc.content] EXCEPT !.id = doc.id]
    ELSE parseCard(doc)

\* getCardLibrary of the rule-based analyzer: the map callback has no
\* try/catch, so one unparseable record makes the whole call throw.
\* Result: [threw, cards].
getCardLibrary(data) ==
    IF \E i \in 1..Len(data) : parseThrows(data[i])
    THEN [threw |-> TRUE, cards |-> <<>>]
    ELSE [threw |-> FALSE, cards |-> [i \in 1..Len(data) |-> parseCardOf(data[i])]]

HasField(card, f) == f \in DOMAIN card

\* The try block of the Hugging Face map callback: the same card, which
\* also carries moment_date, the first ', ' part of the third segment.
parseCardHF(doc) ==
    LET card == parseCardOf(doc)
        date == ElemOrEmpty(Split(Trim(Split(doc.content, " - ")[3]), ", "), 1)
    IN  IF HasField(card, "series")
        THEN [f \in DOMAIN card \cup {"moment_date"} |->
                 IF f = "moment_date" THEN date ELSE card[f]]
        ELSE card

\* getCardLibrary of the Hugging Face analyzer: each record is parsed
\* inside try/catch and an unparseable one becomes the 'Parse Error' card.
getCardLibraryHF(data) ==
    [threw |-> FALSE,
     cards |-> [i \in 1..Len(data) |->
                  IF parseThrows(data[i]) THEN ParseErrorCard(data[i])
                  ELSE parseCardHF(data[i])]]

----------------------------------------------------------------------------
(* Name Resolver: extractPlayerNames.                                      *)

knownPlayers ==
    << "Jalen Williams", "Chet Holmgren", "Shai Gilgeous-Alexander", "Kenrich Williams",
       "Tyrese Haliburton", "Pascal Siakam", "Aaron Nesmith", "Obi Toppin",
       "Karl-Anthony Towns", "Jalen Brunson", "Anthony Edwards", "Nickeil Alexander-Walker",
       "Isaiah Hartenstein", "Miles McBride", "OG Anunoby", "Mitchell Robinson",
       "De'Aaron Fox", "Saddiq Bey", "Buddy Hield", "Daniel Gafford", "Jaden Ivey",
       "Ben Sheppard", "Rudy Gobert", "Julius Randle", "Donte DiVincenzo", "Jaden McDaniels" >>

RECURSIVE FilterKnown(_, _)
\* knownPlayers.forEach: the known names contained in textLower, in roster order.
FilterKnown(textLower, i) ==
    IF i > Len(knownPlayers) THEN <<>>
    ELSE (IF Includes(textLower, ToLowerCase(knownPlayers[i]))
          THEN <<knownPlayers[i]>> ELSE <<>>) \o FilterKnown(textLower, i + 1)

RECURSIVE Dedup(_)
\* [...new Set(found)]: first occurrences, in order.
Dedup(seq) ==
    IF Len(seq) = 0 THEN <<>>
    ELSE Strict(Dedup(SubSeq(seq, 1, Len(seq) - 1)), LAMBDA front :
            IF \E i \in 1..Len(front) : front[i] = seq[Len(seq)] THEN front
            ELSE Append(front, seq[Len(seq)]))

\* A variant without the first-word fallback.
extractPlayerNamesWithoutFallback(text) ==
    Strict(ToLowerCase(text), LAMBDA textLower :
    Strict(FilterKnown(textLower, 1), LAMBDA known :
        Dedup(IF Includes(textLower, "sga")
              THEN Append(known, "Shai Gilgeous-Alexander") ELSE known)))

\* A variant that looks for the alias in the text as written, not in its
\* lower-case form.
extractPlayerNamesCaseSensitiveAlias(text) ==
    Strict(ToLowerCase(text), LAMBDA textLower :
    Strict(FilterKnown(textLower, 1), LAMBDA known :
        LET withAlias == IF Includes(text, "sga")
                         THEN Append(known, "Shai Gilgeous-Alexander") ELSE known
            words == Split(text, " ")
            found == IF Len(withAlias) = 0
                     THEN (IF Len(words) > 0 /\ Len(words[1]) > 2
                           THEN <<words[1]>> ELSE <<>>)
                     ELSE withAlias
        IN  Dedup(found)))

extractPlayerNames(text) ==
    Strict(ToLowerCase(text), LAMBDA textLower :
    Strict(FilterKnown(textLower, 1), LAMBDA known :
        LET withAlias == IF Includes(textLower, "sga")
                         THEN Append(known, "Shai Gilgeous-Alexander") ELSE known
            words == Split(text, " ")
            found == IF Len(withAlias) = 0
                     THEN (IF Len(words) > 0 /\ Len(words[1]) > 2
                           THEN <<words[1]>> ELSE <<>>)
                     ELSE withAlias
        IN  Dedup(found)))

\* extractPlayerNames over the modelled titles, computed once.
extractPlayerNamesTable ==
    [t \in {r.title : r \in ModelledRequirements} |-> extractPlayerNames(t)]

playerNamesOf(text) ==
    IF text \in DOMAIN extractPlayerNamesTable
    THEN extractPlayerNamesTable[text] ELSE extractPlayerNames(text)

\* The player names the modelled inputs can put on a card or in a
\* candidate list, and their index keys, computed once.
ModelledNames ==
    {parseCardTable[c].player_name : c \in DOMAIN parseCardTable}
    \cup {"Parse Error"}
    \cup UNION {{extractPlayerNamesTable[t][i] : i \in 1..Len(extractPlayerNamesTable[t])} :
                t \in DOMAIN extractPlayerNamesTable}

CleanNameTable == [n \in ModelledNames |-> CleanName(n)]

cleanNameOf(name) ==
    IF name \in DOMAIN CleanNameTable THEN CleanNameTable[name] ELSE CleanName(name)

----------------------------------------------------------------------------
(* Fuzzy Match Index: levenshteinDistance, calculateSimilarity.            *)

RECURSIVE LevRow(_, _, _, _, _)
\* Row j of the matrix from row j-1 (prev), columns 1..Len(str1) left to
\* right; row[i + 1] is matrix[j][i].
LevRow(str1, str2, j, prev, row) ==
    IF Len(row) > Len(str1) THEN row
    ELSE LET i == Len(row)
             cost == IF CharAt(str1, i) = CharAt(str2, j) THEN 0 ELSE 1
             cell == Min2(Min2(row[i] + 1, prev[i + 1] + 1), prev[i] + cost)
         IN  Strict(Append(row, cell), LAMBDA next : LevRow(str1, str2, j, prev, next))

RECURSIVE LevRows(_, _, _, _)
LevRows(str1, str2, j, prev) ==
    IF j > Len(str2) THEN prev
    ELSE Strict(LevRow(str1, str2, j, prev, <<j>>), LAMBDA row :
            LevRows(str1, str2, j + 1, row))

levenshteinDistance(str1, str2) ==
    LevRows(str1, str2, 1, [i \in 1..(Len(str1) + 1) |-> i - 1])[Len(str1) + 1]

\* calculateSimilarity(a, b) > 0.8, i.e. (longer.length - distance) / longer.length > 0.8
\* (1.0 when both are empty), in integers: 5 * (L - d) > 4 * L.
similarityAbove80(str1, str2) ==
    LET longer == IF Len(str1) > Len(str2) THEN str1 ELSE str2
        shorter == IF Len(str1) > Len(str2) THEN str2 ELSE str1
    IN  IF Len(longer) = 0 THEN TRUE
        ELSE 5 * (Len(longer) - levenshteinDistance(longer, shorter)) > 4 * Len(longer)

\* The filter predicate of the fuzzy search over the whole library.
fuzzyMatches(cardName, cleanName) ==
    \/ Includes(cardName, cleanName)
    \/ Includes(cleanName, cardName)
    \/ similarityAbove80(cardName, cleanName)

\* fuzzyMatches over the modelled index keys, computed once.
ModelledKeys == {CleanNameTable[n] : n \in ModelledNames}

fuzzyMatchesTable ==
    [cardName \in ModelledKeys, cleanName \in ModelledKeys |->
        fuzzyMatches(cardName, cleanName)]

fuzzyMatchesOf(cardName, cleanName) ==
    IF cardName \in ModelledKeys /\ cleanName \in ModelledKeys
    THEN fuzzyMatchesTable[cardName, cleanName]
    ELSE fuzzyMatches(cardName, cleanName)

----------------------------------------------------------------------------
(* Requirement Matcher: extractRarity, rarityMatches, matchesRequirement,  *)
(* isRarityUpgrade, findMatchingCard.                                      *)
(* A requirement is [title, rarity], both strings.  JavaScript's null and  *)
(* undefined strings are written "" (falsy, and no modelled function       *)
(* returns "" otherwise); a null card is the record null.                  *)

null == [null |-> TRUE]

Truthy(s) == s # ""

\* card.rarity, undefined on the placeholder cards.
cardRarityOf(card) == IF HasField(card, "rarity") THEN card.rarity ELSE ""

rarityOrder == [r \in {"Common", "Rare", "Legendary"} |->
                  IF r = "Common" THEN 1 ELSE IF r = "Rare" THEN 2 ELSE 3]

\* rarityOrder[a] > rarityOrder[b]; a comparison with undefined is false.
OrderGt(a, b) ==
    a \in DOMAIN rarityOrder /\ b \in DOMAIN rarityOrder /\ rarityOrder[a] > rarityOrder[b]

\* rarityOrder[a] >= rarityOrder[b]; a comparison with undefined is false.
OrderGe(a, b) ==
    a \in DOMAIN rarityOrder /\ b \in DOMAIN rarityOrder /\ rarityOrder[a] >= rarityOrder[b]

extractRarity(text) ==
    IF Includes(text, "Legendary") THEN "Legendary"
    ELSE IF Includes(text, "Rare") THEN "Rare"
    ELSE IF Includes(text, "Common") THEN "Common"
    ELSE ""

rarityMatches(cardRarity, requiredRarity) ==
    IF Includes(requiredRarity, "or higher tier")
    THEN LET baseRarity == Split(requiredRarity, " ")[1]
         IN  OrderGe(cardRarity, baseRarity)
    ELSE Includes(ToLowerCase(cardRarity), ToLowerCase(requiredRarity))

\* card.series.includes(...) raises a TypeError on a card without series.
matchesRequirementThrows(card, required) ==
    Includes(required.rarity, "2025 NBA Playoffs") /\ ~HasField(card, "series")

\* The value matchesRequirement returns when it does not throw.
matchesRequirement(card, required) ==
    IF /\ Includes(required.rarity, "2025 NBA Playoffs")
       /\ ~Includes(card.series, "2025")
       /\ ~Includes(card.series, "Playoffs")
    THEN FALSE
    ELSE LET requiredRarity == extractRarity(required.rarity)
             cardRarity == cardRarityOf(card)
         IN  IF Truthy(requiredRarity) /\ Truthy(cardRarity)
             THEN rarityMatches(cardRarity, requiredRarity)
             ELSE TRUE

\* A variant with the comparison turned round: a lower tier counts as the
\* upgrade.
isRarityUpgradeReversed(card, required) ==
    LET requiredRarity == extractRarity(required.rarity)
        cardRarity == cardRarityOf(card)
    IN  IF ~Truthy(requiredRarity) \/ ~Truthy(cardRarity) THEN FALSE
        ELSE OrderGt(requiredRarity, cardRarity)

isRarityUpgrade(card, required) ==
    LET requiredRarity == extractRarity(required.rarity)
        cardRarity == cardRarityOf(card)
    IN  IF ~Truthy(requiredRarity) \/ ~Truthy(cardRarity) THEN FALSE
        ELSE OrderGt(cardRarity, requiredRarity)

\* The three predicates over the modelled cards (whatever their id) and
\* requirements, computed once.
ModelledCards == {parseCardTable[c] : c \in DOMAIN parseCardTable}

predicateTable ==
    [card \in ModelledCards, required \in ModelledRequirements |->
        [throws |-> matchesRequirementThrows(card, required),
         matches |-> IF matchesRequirementThrows(card, required) THEN FALSE
                     ELSE matchesRequirement(card, required),
         upgrade |-> isRarityUpgrade(card, required)]]

\* The predicates do not read the id.
Modelled(card, required) ==
    [card EXCEPT !.id = 0] \in ModelledCards /\ required \in ModelledRequirements

matchesRequirementThrowsOf(card, required) ==
    IF Modelled(card, required)
    THEN predicateTable[[card EXCEPT !.id = 0], required].throws
    ELSE matchesRequirementThrows(card, required)

matchesRequirementOf(card, required) ==
    IF Modelled(card, required)
    THEN predicateTable[[card EXCEPT !.id = 0], required].matches
    ELSE matchesRequirement(card, required)

isRarityUpgradeOf(card, required) ==
    IF Modelled(card, required)
    THEN predicateTable[[card EXCEPT !.id = 0], required].upgrade
    ELSE isRarityUpgrade(card, required)

\* The lower-case alphanumeric property names every object inherits from
\* Object.prototype: playerLookup = {} answers them with a function.
ObjectPrototypeKeys == {"constructor"}

\* Lines 110-117: the exact-key index.  Reading an inherited key finds a
\* truthy function, so no array is created and .push raises a TypeError.
buildLookupThrows(library) ==
    \E i \in 1..Len(library) : cleanNameOf(library[i].player_name) \in ObjectPrototypeKeys

buildLookup(library) ==
    [k \in {cleanNameOf(library[i].player_name) : i \in 1..Len(library)} |->
        SelectSeq(library, LAMBDA card : cleanNameOf(card.player_name) = k)]

\* matches.find(card => matchesRequirement(card, required)): the cards are
\* tried in bucket order; [threw, card], card = null when none qualifies.
findExact(matches, required) ==
    LET stops(i) == \/ matchesRequirementThrowsOf(matches[i], required)
                    \/ matchesRequirementOf(matches[i], required)
    IN  IF \E i \in 1..Len(matches) : stops(i)
        THEN LET i == CHOOSE k \in 1..Len(matches) :
                          stops(k) /\ \A j \in 1..(k - 1) : ~stops(j)
             IN  IF matchesRequirementThrowsOf(matches[i], required)
                 THEN [threw |-> TRUE, card |-> null]
                 ELSE [threw |-> FALSE, card |-> matches[i]]
        ELSE [threw |-> FALSE, card |-> null]

\* matches.find(card => isRarityUpgrade(card, required))
findUpgrade(matches, required) ==
    IF \E i \in 1..Len(matches) : isRarityUpgradeOf(matches[i], required)
    THEN matches[CHOOSE k \in 1..Len(matches) :
                    /\ isRarityUpgradeOf(matches[k], required)
                    /\ \A j \in 1..(k - 1) : ~isRarityUpgradeOf(matches[j], required)]
    ELSE null

\* library.filter(...) of the fuzzy search for one candidate.
fuzzyFilter(library, cleanName) ==
    SelectSeq(library, LAMBDA card : fuzzyMatchesOf(cleanNameOf(card.player_name), cleanName))

RECURSIVE DedupById(_)
\* [...new Map(cards.map(card => [card.id, card])).values()]
DedupById(cards) ==
    IF Len(cards) = 0 THEN <<>>
    ELSE Strict(DedupById(SubSeq(cards, 1, Len(cards) - 1)), LAMBDA front :
            IF \E i \in 1..Len(front) : front[i].id = cards[Len(cards)].id THEN front
            ELSE Append(front, cards[Len(cards)]))

\* One pass of the for...of body over candidate name playerName, when no
\* exact match ends the search: result with the bucket's upgrade and the
\* bucket and fuzzy cards added.
afterCandidate(result, matches, upgrade, fuzzy) ==
    Strict(upgrade, LAMBDA upgradeMatch :
        [result EXCEPT
           !.rarity_upgrade = IF upgradeMatch # null THEN upgradeMatch ELSE @,
           !.partial_matches = @ \o matches \o fuzzy])

RECURSIVE scanCandidates(_, _, _, _, _, _)
\* The for...of loop of findMatchingCard from candidate k on; result is
\* [threw, exact_match, rarity_upgrade, partial_matches].
scanCandidates(playerNames, k, required, library, playerLookup, result) ==
    IF k > Len(playerNames)
    THEN [result EXCEPT !.partial_matches = DedupById(@)]
    ELSE
      Strict(cleanNameOf(playerNames[k]), LAMBDA cleanName :
      Strict(IF cleanName \in DOMAIN playerLookup THEN playerLookup[cleanName] ELSE <<>>,
             LAMBDA matches :
      Strict(findExact(matches, required), LAMBDA exact :
          IF cleanName \notin DOMAIN playerLookup /\ cleanName \in ObjectPrototypeKeys
          THEN [result EXCEPT !.threw = TRUE]   \* matches.find is not a function
          ELSE IF exact.threw
          THEN [result EXCEPT !.threw = TRUE]
          ELSE IF exact.card # null
          THEN [result EXCEPT !.exact_match = exact.card]
          ELSE Strict(afterCandidate(result, matches, findUpgrade(matches, required),
                                     fuzzyFilter(library, cleanName)),
                      LAMBDA next :
                        scanCandidates(playerNames, k + 1, required, library,
                                       playerLookup, next)))))

findMatchingCard(required, library, playerLookup) ==
    Strict(playerNamesOf(required.title), LAMBDA playerNames :
        scanCandidates(playerNames, 1, required, library, playerLookup,
                       [threw |-> FALSE, exact_match |-> null, rarity_upgrade |-> null,
                        partial_matches |-> <<>>]))

----------------------------------------------------------------------------
(* Completion Scorer and Recommender: the tail of analyzeChallenge and     *)
(* generateRecommendations.                                                *)

\* The value of Math.round(0 / 0 * 100): not a number.  No finite rounding
\* result is negative, so NaN is told apart from every percentage.
NaN == -1

\* Math.round((totalMatches / total) * 100): round half up; NaN for 0 / 0.
completionPercentageOf(totalMatches, total) ==
    IF total = 0 THEN NaN
    ELSE (200 * totalMatches + total) \div (2 * total)

CountStatus(matching, status) ==
    Len(SelectSeq(matching, LAMBDA m : m.match_status = status))

\* A variant that emits the verify-manually note before the acquisition
\* note.
generateRecommendationsVerifyFirst(matching, missing, partial) ==
    LET exactCount == CountStatus(matching, "exact_match")
        upgradeCount == CountStatus(matching, "rarity_upgrade")
    IN  (IF Len(matching) > 0 /\ exactCount > 0
         THEN <<"You have " \o ToString(exactCount) \o " exact matches - great collection!">>
         ELSE <<>>)
     \o (IF Len(matching) > 0 /\ upgradeCount > 0
         THEN <<"You have " \o ToString(upgradeCount)
                  \o " higher rarity cards that can fulfill requirements">>
         ELSE <<>>)
     \o (IF Len(partial) > 0
         THEN <<ToString(Len(partial)) \o " potential matches found - verify manually">>
         ELSE <<>>)
     \o (IF Len(missing) > 0
         THEN <<"Need to acquire " \o ToString(Len(missing)) \o " cards to complete challenge",
                "Check NBA Top Shot marketplace for missing cards">>
         ELSE <<>>)
     \o (IF Len(matching) = 0 /\ Len(missing) > 0
         THEN <<"Focus on acquiring any card from this challenge first">>
         ELSE <<>>)
     \o <<"Consider checking for alternative series or special editions">>

generateRecommendations(matching, missing, partial) ==
    LET exactCount == CountStatus(matching, "exact_match")
        upgradeCount == CountStatus(matching, "rarity_upgrade")
    IN  (IF Len(matching) > 0 /\ exactCount > 0
         THEN <<"You have " \o ToString(exactCount) \o " exact matches - great collection!">>
         ELSE <<>>)
     \o (IF Len(matching) > 0 /\ upgradeCount > 0
         THEN <<"You have " \o ToString(upgradeCount)
                  \o " higher rarity cards that can fulfill requirements">>
         ELSE <<>>)
     \o (IF Len(missing) > 0
         THEN <<"Need to acquire " \o ToString(Len(missing)) \o " cards to complete challenge",
                "Check NBA Top Shot marketplace for missing cards">>
         ELSE <<>>)
     \o (IF Len(partial) > 0
         THEN <<ToString(Len(partial)) \o " potential matches found - verify manually">>
         ELSE <<>>)
     \o (IF Len(matching) = 0 /\ Len(missing) > 0
         THEN <<"Focus on acquiring any card from this challenge first">>
         ELSE <<>>)
     \o <<"Consider checking for alternative series or special editions">>

\* A variant of the forEach body without its third branch: a requirement
\* with potential matches only is pushed to no list.
classifyWithoutPotential(required, found) ==
    IF found.exact_match # null
    THEN [list |-> "matching",
          entry |-> [required |-> required, library_match |-> found.exact_match,
                     match_status |-> "exact_match"]]
    ELSE IF found.rarity_upgrade # null
    THEN [list |-> "matching",
          entry |-> [required |-> required, library_match |-> found.rarity_upgrade,
                     match_status |-> "rarity_upgrade"]]
    ELSE IF Len(found.partial_matches) > 0
    THEN [list |-> "none", entry |-> [required |-> required]]
    ELSE [list |-> "missing",
          entry |-> [required |-> required,
                     reason |-> "No matching player found in library",
                     alternatives |-> <<"Check marketplace", "Look for pack drops",
                                        "Verify player name spelling">>]]

\* The entry one forEach iteration pushes, from findMatchingCard's result:
\* [list, entry] with list the array it is pushed to.
classify(required, found) ==
    IF found.exact_match # null
    THEN [list |-> "matching",
          entry |-> [required |-> required, library_match |-> found.exact_match,
                     match_status |-> "exact_match"]]
    ELSE IF found.rarity_upgrade # null
    THEN [list |-> "matching",
          entry |-> [required |-> required, library_match |-> found.rarity_upgrade,
                     match_status |-> "rarity_upgrade"]]
    ELSE IF Len(found.partial_matches) > 0
    THEN [list |-> "partial",
          entry |-> [required |-> required, potential_matches |-> found.partial_matches,
                     match_status |-> "potential_match"]]
    ELSE [list |-> "missing",
          entry |-> [required |-> required,
                     reason |-> "No matching player found in library",
                     alternatives |-> <<"Check marketplace", "Look for pack drops",
                                        "Verify player name spelling">>]]

\* A variant that counts the potential matches as matches, as the other
\* analyzers of the repository do.
analysisResultCountingPotential(requiredCards, matching, missing, partial, library) ==
    LET exactMatches == CountStatus(matching, "exact_match")
        upgradeMatches == CountStatus(matching, "rarity_upgrade")
        totalMatches == Len(matching) + Len(partial)
    IN  [threw |-> FALSE,
         can_complete |-> (totalMatches = Len(requiredCards)),
         completion_percentage |-> completionPercentageOf(totalMatches, Len(requiredCards)),
         matching_cards |-> matching,
         missing_cards |-> missing,
         partial_matches |-> partial,
         stats |-> [exact_matches |-> exactMatches,
                    rarity_upgrades |-> upgradeMatches,
                    potential_matches |-> Len(partial),
                    missing |-> Len(missing)],
         recommendations |-> generateRecommendations(matching, missing, partial),
         library_size |-> Len(library)]

\* The object analyzeChallenge returns (metadata.analyzed_at, the wall
\* clock, is left out).
analysisResult(requiredCards, matching, missing, partial, library) ==
    LET exactMatches == CountStatus(matching, "exact_match")
        upgradeMatches == CountStatus(matching, "rarity_upgrade")
        totalMatches == Len(matching)
    IN  [threw |-> FALSE,
         can_complete |-> (totalMatches = Len(requiredCards)),
         completion_percentage |-> completionPercentageOf(totalMatches, Len(requiredCards)),
         matching_cards |-> matching,
         missing_cards |-> missing,
         partial_matches |-> partial,
         stats |-> [exact_matches |-> exactMatches,
                    rarity_upgrades |-> upgradeMatches,
                    potential_matches |-> Len(partial),
                    missing |-> Len(missing)],
         recommendations |-> generateRecommendations(matching, missing, partial),
         library_size |-> Len(library)]

\* What the caller of analyzeChallenge sees when it throws; at names the
\* function the exception came from.
thrownAt(at) == [threw |-> TRUE, at |-> at]

\* No call has returned yet.
pending == [pending |-> TRUE]

----------------------------------------------------------------------------
(* The analyzers that ask a language model, and their fallback.            *)

\* callHuggingFace(prompt, maxRetries = 3)
maxRetries == 3

\* Tables the model-backed analyzers read: the modelled cards and a record
\* whose content is no string.
ModelContents == Contents \cup {[content |-> "null", content_type |-> "object"]}

\* What a model call hands back: texts in the format of either prompt, a
\* text with the percentage in brackets as the prompt spells it, a refusal
\* without any marker, the empty text, and a generated_text or response
\* field that is no string.
Responses ==
    { [text |-> "AVAILABLE: [Pascal Siakam, Unknown] MISSING: [] COMPLETION: 100",
       type |-> "string"],
      [text |-> "Available: [] missing: [Pascal Siakam] completion: [50]",
       type |-> "string"],
      [text |-> "MATCHES: Pascal Siakam, Wemby MISSING: Obi Toppin COMPLETION: 67%",
       type |-> "string"],
      [text |-> "I cannot help with that.", type |-> "string"],
      [text |-> "", type |-> "string"],
      [text |-> "", type |-> "object"] }

\* The first index from i on that holds no blank (Len(s) + 1 if none).
RECURSIVE SkipSpaces(_, _)
SkipSpaces(s, i) ==
    IF i <= Len(s) /\ CharAt(s, i) = " " THEN SkipSpaces(s, i + 1) ELSE i

IsDigit(c) == \E d \in 1..Len(DigitChars) : CharAt(DigitChars, d) = c

\* The end of the run of digits that starts at i (i - 1 if none starts).
RECURSIVE DigitsEnd(_, _)
DigitsEnd(s, i) ==
    IF i <= Len(s) /\ IsDigit(CharAt(s, i)) THEN DigitsEnd(s, i + 1) ELSE i - 1

\* parseInt of a string of decimal digits.
RECURSIVE parseInt(_)
parseInt(digits) ==
    IF digits = "" THEN 0
    ELSE 10 * parseInt(SubSeq(digits, 1, Len(digits) - 1))
         + ((CHOOSE d \in 1..Len(DigitChars) :
                 CharAt(DigitChars, d) = CharAt(digits, Len(digits))) - 1)

noMatch == [found |-> FALSE, group |-> ""]

\* response.match(/MARKER:\s*\[(.*?)\]/i) on a text of one line: the
\* leftmost marker that is followed, after blanks, by '[' and later by ']';
\* the group is the text between them.
RECURSIVE matchBracketed(_, _, _)
matchBracketed(text, marker, from) ==
    Strict(ToLowerCase(text), LAMBDA lower :
    Strict(IndexOfFrom(lower, marker, from), LAMBDA k :
        IF k = 0 THEN noMatch
        ELSE Strict(SkipSpaces(text, k + Len(marker)), LAMBDA open :
             Strict(IF open <= Len(text) /\ CharAt(text, open) = "["
                    THEN IndexOfFrom(text, "]", open + 1) ELSE 0, LAMBDA close :
                 IF close > 0
                 THEN [found |-> TRUE, group |-> SubSeq(text, open + 1, close - 1)]
                 ELSE matchBracketed(text, marker, k + 1)))))

\* response.match(/COMPLETION:\s*(\d+)/i): the leftmost marker that is
\* followed, after blanks, by a digit; the group is the run of digits.
RECURSIVE matchDigits(_, _, _)
matchDigits(text, marker, from) ==
    Strict(ToLowerCase(text), LAMBDA lower :
    Strict(IndexOfFrom(lower, marker, from), LAMBDA k :
        IF k = 0 THEN noMatch
        ELSE Strict(SkipSpaces(text, k + Len(marker)), LAMBDA start :
             Strict(DigitsEnd(text, start), LAMBDA end :
                 IF end >= start
                 THEN [found |-> TRUE, group |-> SubSeq(text, start, end)]
                 ELSE matchDigits(text, marker, k + 1)))))

\* response.match(/MARKER:\s*(.*?)(?:\n|STOP|$)/is) on a text of one line:
\* the first marker matches; the group runs from the first non-blank after
\* it to the first STOP, or to the end of the text.
matchLazy(text, marker, stop) ==
    Strict(ToLowerCase(text), LAMBDA lower :
    Strict(IndexOfFrom(lower, marker, 1), LAMBDA k :
        IF k = 0 THEN noMatch
        ELSE Strict(SkipSpaces(text, k + Len(marker)), LAMBDA start :
             Strict(IndexOfFrom(lower, stop, start), LAMBDA end :
                 [found |-> TRUE,
                  group |-> SubSeq(text, start,
                                   IF end = 0 THEN Len(text) ELSE end - 1)]))))

\* group.split(',').map(s => s.trim())
trimmedItems(group) ==
    Strict(Split(group, ","), LAMBDA items : [i \in 1..Len(items) |-> Trim(items[i])])

\* library.find(predicate): the first card that satisfies it, or undefined.
find(library, Test(_)) ==
    IF \E i \in 1..Len(library) : Test(library[i])
    THEN library[CHOOSE i \in 1..Len(library) :
                     Test(library[i]) /\ \A j \in 1..(i - 1) : ~Test(library[j])]
    ELSE null

\* `${found.series}`: a card without series prints as 'undefined'.
seriesText(card) == IF HasField(card, "series") THEN card.series ELSE "undefined"

\* The entry either fallback pushes for a requirement.
fallbackEntry(required, found, alternatives) ==
    IF found # null
    THEN [list |-> "matching",
          entry |-> [required |-> required, library_match |-> found,
                     match_status |-> "rule_based_match",
                     notes |-> "Matched " \o found.player_name \o " from "
                                   \o seriesText(found)]]
    ELSE [list |-> "missing",
          entry |-> [required |-> required,
                     reason |-> "No matching player found in library",
                     alternatives |-> alternatives]]

\* The entries of one list, in the order of the requirements.
entriesOf(entries, list) ==
    LET kept == SelectSeq(entries, LAMBDA e : e.list = list)
    IN  [i \in 1..Len(kept) |-> kept[i].entry]

\* The object either fallback returns (summary and metadata.analyzed_at
\* are left out).
fallbackResult(requiredCards, matching, missing, recommendations, library) ==
    [threw |-> FALSE,
     can_complete |-> (Len(matching) = Len(requiredCards)),
     completion_percentage |-> completionPercentageOf(Len(matching), Len(requiredCards)),
     matching_cards |-> matching,
     missing_cards |-> missing,
     recommendations |-> recommendations,
     analysis_method |-> "rule_based_fallback",
     library_size |-> Len(library)]

\* Player names and requirement titles of the modelled inputs.
ModelledPlayerNames ==
    {parseCardTable[c].player_name : c \in DOMAIN parseCardTable} \cup {"Parse Error"}

ModelledTitles == {r.title : r \in ModelledRequirements}

\* The find callback of the Hugging Face fallback, for the title of the
\* requirement and the player name of a card.
titleNamesPlayer(title, cardName) ==
    Strict2(ToLowerCase(title), ToLowerCase(cardName), LAMBDA requiredTitle, playerName :
        \/ Includes(requiredTitle, playerName)
        \/ Strict(Split(requiredTitle, " ")[1], LAMBDA firstWord :
               Includes(playerName, firstWord)))

\* titleNamesPlayer over the modelled titles and names, computed once.
titleNamesPlayerTable ==
    [title \in ModelledTitles, cardName \in ModelledPlayerNames |->
        titleNamesPlayer(title, cardName)]

titleNamesPlayerOf(title, cardName) ==
    IF title \in ModelledTitles /\ cardName \in ModelledPlayerNames
    THEN titleNamesPlayerTable[title, cardName]
    ELSE titleNamesPlayer(title, cardName)

\* fallbackAnalysis of the Hugging Face analyzer: a requirement is matched
\* by the first card whose player name occurs in the title, or contains the
\* title's first word.
fallbackAnalysisHF(ch, library) ==
    Strict([i \in 1..Len(ch.required_cards) |->
               LET required == ch.required_cards[i]
                   test(card) == titleNamesPlayerOf(required.title, card.player_name)
               IN  fallbackEntry(required, find(library, test),
                                 <<"Check marketplace", "Look for pack drops">>)],
           LAMBDA entries :
    Strict2(entriesOf(entries, "matching"), entriesOf(entries, "missing"),
            LAMBDA matching, missing :
        fallbackResult(ch.required_cards, matching, missing,
            << IF Len(matching) > 0 THEN "You have some matching cards!"
               ELSE "No direct matches found",
               IF Len(missing) > 0
               THEN "Need to acquire " \o ToString(Len(missing)) \o " more cards"
               ELSE "Collection complete for this challenge!",
               "Consider checking for alternative series or rarity upgrades" >>,
            library)))

\* commonPlayers of the Ollama analyzer.
commonPlayers ==
    << "Jalen Williams", "Chet Holmgren", "Shai Gilgeous-Alexander", "Kenrich Williams",
       "Tyrese Haliburton", "Pascal Siakam", "Aaron Nesmith", "Obi Toppin",
       "Karl-Anthony Towns", "Jalen Brunson", "Anthony Edwards",
       "Nickeil Alexander-Walker", "Isaiah Hartenstein", "Miles McBride", "OG Anunoby",
       "Mitchell Robinson", "De'Aaron Fox", "Saddiq Bey", "Buddy Hield",
       "Daniel Gafford", "Jaden Ivey" >>

\* extractPlayerNames of the Ollama analyzer: the listed players the text
\* names, the alias target once more if the text holds 'sga', and
\* otherwise the first word of the text whatever its length.
extractPlayerNamesOllama(text) ==
    Strict(ToLowerCase(text), LAMBDA lower :
    Strict(SelectSeq(commonPlayers, LAMBDA p :
               Strict(ToLowerCase(p), LAMBDA player : Includes(lower, player))),
           LAMBDA listed :
    Strict(IF Includes(lower, "sga")
           THEN Append(listed, "Shai Gilgeous-Alexander") ELSE listed, LAMBDA found :
        IF Len(found) > 0 THEN found ELSE <<Split(text, " ")[1]>>)))

\* playerName.replace(/'/g, '')
RECURSIVE withoutApostrophes(_)
withoutApostrophes(s) ==
    IF s = "" THEN ""
    ELSE (IF CharAt(s, 1) = "'" THEN "" ELSE CharAt(s, 1))
         \o withoutApostrophes(SubSeq(s, 2, Len(s)))

\* const potentialNames = extractPlayerNames(requiredTitle), for the
\* modelled titles computed once.
potentialNamesTable ==
    [title \in ModelledTitles |-> extractPlayerNamesOllama(ToLowerCase(title))]

potentialNamesOf(title) ==
    IF title \in ModelledTitles THEN potentialNamesTable[title]
    ELSE extractPlayerNamesOllama(ToLowerCase(title))

\* The find callback of the Ollama fallback, for a candidate name and the
\* player name of a card.
candidateNamesPlayer(candidate, cardName) ==
    Strict2(ToLowerCase(candidate), ToLowerCase(cardName), LAMBDA name, playerName :
        \/ Includes(playerName, name)
        \/ Strict(withoutApostrophes(playerName), LAMBDA plain : Includes(name, plain)))

ModelledCandidates ==
    UNION {{potentialNamesTable[t][i] : i \in 1..Len(potentialNamesTable[t])} :
           t \in ModelledTitles}

\* candidateNamesPlayer over the modelled names, computed once.
candidateNamesPlayerTable ==
    [candidate \in ModelledCandidates, cardName \in ModelledPlayerNames |->
        candidateNamesPlayer(candidate, cardName)]

candidateNamesPlayerOf(candidate, cardName) ==
    IF candidate \in ModelledCandidates /\ cardName \in ModelledPlayerNames
    THEN candidateNamesPlayerTable[candidate, cardName]
    ELSE candidateNamesPlayer(candidate, cardName)

\* The for loop of the Ollama fallback: the card found for the first
\* candidate name that finds one.
RECURSIVE foundForNames(_, _, _)
foundForNames(potentialNames, k, library) ==
    IF k > Len(potentialNames) THEN null
    ELSE LET test(card) == candidateNamesPlayerOf(potentialNames[k], card.player_name)
         IN  Strict(find(library, test), LAMBDA found :
                 IF found # null THEN found
                 ELSE foundForNames(potentialNames, k + 1, library))

\* fallbackAnalysis of the Ollama analyzer.
fallbackAnalysisOllama(ch, library) ==
    Strict([i \in 1..Len(ch.required_cards) |->
               Strict(potentialNamesOf(ch.required_cards[i].title), LAMBDA potentialNames :
                   fallbackEntry(ch.required_cards[i],
                                 foundForNames(potentialNames, 1, library),
                                 <<"Check for name variations", "Look in marketplace">>))],
           LAMBDA entries :
    Strict2(entriesOf(entries, "matching"), entriesOf(entries, "missing"),
            LAMBDA matching, missing :
        fallbackResult(ch.required_cards, matching, missing,
            << IF Len(matching) > 0
               THEN "Found " \o ToString(Len(matching)) \o " matching cards"
               ELSE "No direct matches found",
               IF Len(missing) > 0 THEN "Need " \o ToString(Len(missing)) \o " more cards"
               ELSE "All required cards available!",
               "This is a basic analysis - manual verification recommended" >>,
            library)))

\* The three values parseHFResponse reads from a text, an absent marker
\* giving an empty list or 0.
readHFResponse(text) ==
    Strict2(matchBracketed(text, "available:", 1), matchBracketed(text, "missing:", 1),
            LAMBDA availableMatch, missingMatch :
    Strict(matchDigits(text, "completion:", 1), LAMBDA completionMatch :
        [available |-> IF availableMatch.found
                       THEN trimmedItems(availableMatch.group) ELSE <<>>,
         missing |-> IF missingMatch.found
                     THEN trimmedItems(missingMatch.group) ELSE <<>>,
         completion |-> IF completionMatch.found
                        THEN parseInt(completionMatch.group) ELSE 0]))

ResponseTexts == {r.text : r \in Responses}

\* readHFResponse over the modelled texts, computed once.
readHFResponseTable == [text \in ResponseTexts |-> readHFResponse(text)]

readHFResponseOf(text) ==
    IF text \in ResponseTexts THEN readHFResponseTable[text] ELSE readHFResponse(text)

\* parseHFResponse: response.match raises a TypeError when the response is
\* no string, and only then is the fallback used.
parseHFResponse(response, ch, library) ==
    IF response.type # "string" THEN fallbackAnalysisHF(ch, library)
    ELSE Strict(readHFResponseOf(response.text), LAMBDA read :
             [threw |-> FALSE,
              can_complete |-> (read.completion >= 100),
              completion_percentage |-> read.completion,
              matching_cards |-> [i \in 1..Len(read.available) |->
                  [required |-> read.available[i], status |-> "available",
                   source |-> "huggingface"]],
              missing_cards |-> [i \in 1..Len(read.missing) |->
                  [required |-> read.missing[i], reason |-> "not_in_library",
                   source |-> "huggingface"]],
              recommendations |-> <<"Review the analysis above",
                                    "Consider acquiring missing cards",
                                    "Check for alternative series that might work">>,
              analysis_method |-> "huggingface",
              library_size |-> Len(library),
              raw_response |-> response.text])

\* The three values parseOllamaResponse reads from a text.
readOllamaResponse(text) ==
    LET nonEmpty(items) == SelectSeq(items, LAMBDA t : Len(t) > 0)
    IN  Strict2(matchLazy(text, "matches:", "missing"),
                matchLazy(text, "missing:", "completion"),
                LAMBDA matchesMatch, missingMatch :
        Strict(matchDigits(text, "completion:", 1), LAMBDA completionMatch :
            [matches |-> IF matchesMatch.found
                         THEN nonEmpty(trimmedItems(matchesMatch.group)) ELSE <<>>,
             missing |-> IF missingMatch.found
                         THEN nonEmpty(trimmedItems(missingMatch.group)) ELSE <<>>,
             completion |-> IF completionMatch.found
                            THEN parseInt(completionMatch.group) ELSE 0]))

\* readOllamaResponse over the modelled texts, computed once.
readOllamaResponseTable == [text \in ResponseTexts |-> readOllamaResponse(text)]

readOllamaResponseOf(text) ==
    IF text \in ResponseTexts THEN readOllamaResponseTable[text]
    ELSE readOllamaResponse(text)

\* The find callback of parseOllamaResponse, for a name the model lists
\* and the player name of a card.
claimNamesPlayer(match, cardName) ==
    Strict2(ToLowerCase(match), ToLowerCase(cardName), LAMBDA name, playerName :
        Includes(playerName, name) \/ Includes(name, playerName))

ModelledClaims ==
    UNION {{readOllamaResponseTable[t].matches[i] :
                i \in 1..Len(readOllamaResponseTable[t].matches)} : t \in ResponseTexts}

\* claimNamesPlayer over the modelled names, computed once.
claimNamesPlayerTable ==
    [match \in ModelledClaims, cardName \in ModelledPlayerNames |->
        claimNamesPlayer(match, cardName)]

claimNamesPlayerOf(match, cardName) ==
    IF match \in ModelledClaims /\ cardName \in ModelledPlayerNames
    THEN claimNamesPlayerTable[match, cardName]
    ELSE claimNamesPlayer(match, cardName)

\* The entry parseOllamaResponse builds for a name the model lists as a
\* match: the first card whose player name contains it or is contained.
claimedMatch(match, library) ==
    LET test(card) == claimNamesPlayerOf(match, card.player_name)
    IN  Strict(find(library, test), LAMBDA libraryCard :
            [required |-> match,
             library_match |-> libraryCard,
             match_status |-> IF libraryCard # null THEN "found"
                              ELSE "claimed_but_not_verified",
             notes |-> IF libraryCard # null
                       THEN "Found " \o libraryCard.player_name \o " in "
                                \o seriesText(libraryCard)
                       ELSE "AI claimed match but not verified"])

\* parseOllamaResponse, with OLLAMA_MODEL at its default 'llama2': as
\* parseHFResponse, the fallback is used only when response.match raises.
parseOllamaResponse(response, ch, library) ==
    IF response.type # "string" THEN fallbackAnalysisOllama(ch, library)
    ELSE Strict(readOllamaResponseOf(response.text), LAMBDA read :
             [threw |-> FALSE,
              can_complete |-> (read.completion >= 100),
              completion_percentage |-> read.completion,
              matching_cards |-> [i \in 1..Len(read.matches) |->
                                      claimedMatch(read.matches[i], library)],
              missing_cards |-> [i \in 1..Len(read.missing) |->
                  [required |-> read.missing[i],
                   reason |-> "Not found in collection according to AI",
                   alternatives |-> <<"Check marketplace", "Look for pack drops">>]],
              recommendations |->
                  << IF Len(read.matches) > 0
                     THEN "AI found " \o ToString(Len(read.matches))
                              \o " potential matches"
                     ELSE "No matches identified by AI",
                     IF Len(read.missing) > 0
                     THEN "AI identified " \o ToString(Len(read.missing))
                              \o " missing cards"
                     ELSE "AI thinks you have all required cards",
                     "Verify AI analysis manually for accuracy" >>,
              analysis_method |-> "ollama_llama2",
              library_size |-> Len(library),
              raw_response |-> response.text])

----------------------------------------------------------------------------
(* analyzeChallenge as a state machine.                                    *)

VARIABLES
    documents,     \* the documents table, in id order
    challenge,     \* the row of challenges_with_cards under analysis
    pc,            \* position inside analyzeChallenge
    library,       \* const library
    playerLookup,  \* const playerLookup
    index,         \* forEach position in requiredCards
    matching,      \* const matching
    missing,       \* const missing
    partial,       \* const partial
    result,        \* what the current call returned (or thrown)
    run,           \* number of the current call
    previous,      \* the call before: the table it read and what it returned
    saveResults,   \* the saveResults argument of the call
    challenge_analysis,  \* the rows of the challenge_analysis table
    persistence,   \* how the reads and inserts of challenge_analysis went in this call
    llm,           \* what the language model did in this call
    scraper,       \* the challenge scraper: its loops and the browser page
    batch,         \* analyzeAllChallenges: the fetched challenges and the entries so far
    store          \* insertChallengeData: the file, the two tables and the counters

vars == <<documents, challenge, pc, library, playerLookup, index,
          matching, missing, partial, result, run, previous,
          saveResults, challenge_analysis, persistence, llm,
          scraper, batch, store>>

\* The programs beside the analyzers: the scraper, the batch analysis and
\* the import of scraped challenges.
subsystems == <<scraper, batch, store>>

\* A program that is not running.
idle == [active |-> FALSE]

NoSubsystems ==
    /\ scraper = idle
    /\ batch = idle
    /\ store = idle

\* The collaborators of the rule-based core: the results table and the
\* language model.
collaborators == <<saveResults, challenge_analysis, persistence, llm>>

\* No read and no insert of challenge_analysis has been tried in this call.
untouched == [read |-> "none", insert |-> "none"]

\* The language model has not been called.
notCalled == [called |-> FALSE]

\* The analyzer neither stores its results nor calls a language model.
NoCollaborators ==
    /\ saveResults = FALSE
    /\ challenge_analysis = <<>>
    /\ persistence = untouched
    /\ llm = notCalled

inputs == <<documents, challenge>>

requiredCards == challenge.required_cards

Init ==
    /\ documents \in DocumentTables
    /\ challenge \in Challenges
    /\ pc = "fetch"
    /\ library = <<>>
    /\ playerLookup = <<>>
    /\ index = 0
    /\ matching = <<>>
    /\ missing = <<>>
    /\ partial = <<>>
    /\ result = pending
    /\ run = 1
    /\ previous = pending
    /\ NoCollaborators
    /\ NoSubsystems

\* A variant whose result arrays outlive the call (as module-level arrays
\* would): they are not created afresh.
FetchLibraryKeepingArrays ==
    /\ pc = "fetch"
    /\ \E fetched \in {getCardLibrary(documents)} :
           IF fetched.threw
           THEN /\ pc' = "done"
                /\ result' = thrownAt("getCardLibrary")
                /\ UNCHANGED library
           ELSE /\ pc' = IF saveResults THEN "previous" ELSE "lookup"
                /\ library' = fetched.cards
                /\ UNCHANGED result
    /\ UNCHANGED <<inputs, playerLookup, index, matching, missing, partial, run, previous>>
    /\ UNCHANGED collaborators
    /\ UNCHANGED subsystems

\* Lines 97-107: the library is fetched and normalized, the three result
\* arrays are created empty.
FetchLibrary ==
    /\ pc = "fetch"
    /\ \E fetched \in {getCardLibrary(documents)} :
           IF fetched.threw
           THEN /\ pc' = "done"
                /\ result' = thrownAt("getCardLibrary")
                /\ UNCHANGED library
           ELSE /\ pc' = IF saveResults THEN "previous" ELSE "lookup"
                /\ library' = fetched.cards
                /\ UNCHANGED result
    /\ matching' = <<>>
    /\ missing' = <<>>
    /\ partial' = <<>>
    /\ UNCHANGED <<inputs, playerLookup, index, run, previous>>
    /\ UNCHANGED collaborators
    /\ UNCHANGED subsystems

\* Lines 109-117: the exact-key index is built.
BuildLookup ==
    /\ pc = "lookup"
    /\ IF buildLookupThrows(library)
       THEN /\ pc' = "done"
            /\ result' = thrownAt("analyzeChallenge")
            /\ UNCHANGED <<playerLookup, index>>
       ELSE /\ pc' = "requirements"
            /\ playerLookup' = buildLookup(library)
            /\ index' = 1
            /\ UNCHANGED result
    /\ UNCHANGED <<inputs, library, matching, missing, partial, run, previous>>
    /\ UNCHANGED collaborators
    /\ UNCHANGED subsystems

\* Lines 120-160: one iteration of requiredCards.forEach.
AnalyzeRequirement ==
    /\ pc = "requirements"
    /\ index <= Len(requiredCards)
    /\ \E found \in {findMatchingCard(requiredCards[index], library, playerLookup)} :
       \E pushed \in {classify(requiredCards[index], found)} :
           IF found.threw
           THEN /\ pc' = "done"
                /\ result' = thrownAt("findMatchingCard")
                /\ UNCHANGED <<index, matching, missing, partial>>
           ELSE /\ index' = index + 1
                /\ matching' = IF pushed.list = "matching"
                               THEN Append(matching, pushed.entry) ELSE matching
                /\ partial' = IF pushed.list = "partial"
                              THEN Append(partial, pushed.entry) ELSE partial
                /\ missing' = IF pushed.list = "missing"
                              THEN Append(missing, pushed.entry) ELSE missing
                /\ UNCHANGED <<pc, result>>
    /\ UNCHANGED <<inputs, library, playerLookup, run, previous>>
    /\ UNCHANGED collaborators
    /\ UNCHANGED subsystems

\* Lines 162-190: the counts, the percentage and the returned object.
Score ==
    /\ pc = "requirements"
    /\ index > Len(requiredCards)
    /\ result' = analysisResult(requiredCards, matching, missing, partial, library)
    /\ pc' = IF saveResults THEN "save" ELSE "done"
    /\ UNCHANGED <<inputs, library, playerLookup, index, matching, missing,
                   partial, run, previous>>
    /\ UNCHANGED collaborators
    /\ UNCHANGED subsystems

\* analyzeChallenge is called again on the same snapshot (analyzeAllChallenges
\* and the CLI call it once per request); its locals start afresh.
Rerun ==
    /\ pc = "done"
    /\ run < MaxRuns
    /\ run' = run + 1
    /\ previous' = [documents |-> documents, result |-> result]
    /\ result' = pending
    /\ pc' = "fetch"
    /\ UNCHANGED <<inputs, library, playerLookup, index, matching, missing, partial>>
    /\ UNCHANGED collaborators
    /\ UNCHANGED subsystems

Next ==
    \/ FetchLibrary
    \/ BuildLookup
    \/ AnalyzeRequirement
    \/ Score
    \/ Rerun

Spec == Init /\ [][Next]_vars

----------------------------------------------------------------------------
(* analyzeChallenge with database storage (saveResults).                   *)

\* The row saveAnalysisResults inserts (the columns the analysis fills),
\* with the id the table gives it.
analysisRecord(analysis, challengeId, id) ==
    [id |-> id,
     challenge_id |-> challengeId,
     analysis_method |-> "rule_based",
     can_complete |-> analysis.can_complete,
     completion_percentage |-> analysis.completion_percentage,
     total_required_cards |-> Len(analysis.matching_cards) + Len(analysis.missing_cards)
                                  + Len(analysis.partial_matches),
     recommendations |-> analysis.recommendations]

\* analysis.database_record_id = savedRecord.id
withRecordId(analysis, id) ==
    [f \in DOMAIN analysis \cup {"database_record_id"} |->
        IF f = "database_record_id" THEN id ELSE analysis[f]]

\* getPreviousAnalysis, called when saveResults: the query answers ("ok":
\* the latest row or none, which is only logged), answers with an error
\* value, or throws; either failure is logged and null is returned.
GetPreviousAnalysis ==
    /\ pc = "previous"
    /\ \E outcome \in {"ok", "error", "thrown"} :
           persistence' = [persistence EXCEPT !.read = outcome]
    /\ pc' = "lookup"
    /\ UNCHANGED <<inputs, library, playerLookup, index, matching, missing, partial,
                   result, run, previous, saveResults, challenge_analysis, llm>>
    /\ UNCHANGED subsystems

\* A variant without the try/catch of saveAnalysisResults: an exception
\* of the insert leaves analyzeChallenge.
SaveAnalysisResultsUncaught ==
    /\ pc = "save"
    /\ \E outcome \in {"ok", "empty", "error", "thrown"} :
       \E id \in {Len(challenge_analysis) + 1} :
           /\ persistence' = [persistence EXCEPT !.insert = outcome]
           /\ challenge_analysis' =
                  IF outcome \in {"ok", "empty"}
                  THEN Append(challenge_analysis, analysisRecord(result, challenge.id, id))
                  ELSE challenge_analysis
           /\ result' = IF outcome = "ok" THEN withRecordId(result, id)
                        ELSE IF outcome = "thrown" THEN thrownAt("saveAnalysisResults")
                        ELSE result
    /\ pc' = "done"
    /\ UNCHANGED <<inputs, library, playerLookup, index, matching, missing, partial,
                   run, previous, saveResults, llm>>
    /\ UNCHANGED subsystems

\* saveAnalysisResults and the lines after it, called when saveResults:
\* the insert returns the new row ("ok"), returns no row ("empty"),
\* answers with an error value or throws; only a returned row gives the
\* analysis its database_record_id.
SaveAnalysisResults ==
    /\ pc = "save"
    /\ \E outcome \in {"ok", "empty", "error", "thrown"} :
       \E id \in {Len(challenge_analysis) + 1} :
           /\ persistence' = [persistence EXCEPT !.insert = outcome]
           /\ challenge_analysis' =
                  IF outcome \in {"ok", "empty"}
                  THEN Append(challenge_analysis, analysisRecord(result, challenge.id, id))
                  ELSE challenge_analysis
           /\ result' = IF outcome = "ok" THEN withRecordId(result, id) ELSE result
    /\ pc' = "done"
    /\ UNCHANGED <<inputs, library, playerLookup, index, matching, missing, partial,
                   run, previous, saveResults, llm>>
    /\ UNCHANGED subsystems

\* analyzeChallenge is called again on the same snapshot, with or without
\* saveResults.
RerunStored ==
    /\ pc = "done"
    /\ run < MaxRuns
    /\ run' = run + 1
    /\ previous' = [documents |-> documents, result |-> result, saveResults |-> saveResults]
    /\ saveResults' \in BOOLEAN
    /\ persistence' = untouched
    /\ result' = pending
    /\ pc' = "fetch"
    /\ UNCHANGED <<inputs, library, playerLookup, index, matching, missing, partial,
                   challenge_analysis, llm>>
    /\ UNCHANGED subsystems

InitPersist ==
    /\ documents \in DocumentTables
    /\ challenge \in {c \in Challenges : Len(c.required_cards) <= 1}
    /\ pc = "fetch"
    /\ library = <<>>
    /\ playerLookup = <<>>
    /\ index = 0
    /\ matching = <<>>
    /\ missing = <<>>
    /\ partial = <<>>
    /\ result = pending
    /\ run = 1
    /\ previous = pending
    /\ saveResults \in BOOLEAN
    /\ challenge_analysis = <<>>
    /\ persistence = untouched
    /\ llm = notCalled
    /\ NoSubsystems

NextPersist ==
    \/ FetchLibrary
    \/ GetPreviousAnalysis
    \/ BuildLookup
    \/ AnalyzeRequirement
    \/ Score
    \/ SaveAnalysisResults
    \/ RerunStored

SpecPersist == InitPersist /\ [][NextPersist]_vars

\* One call of analyzeChallenge with saveResults on a challenge of any
\* number of requirements.
InitSave ==
    /\ documents \in DocumentTables
    /\ challenge \in Challenges
    /\ pc = "fetch"
    /\ library = <<>>
    /\ playerLookup = <<>>
    /\ index = 0
    /\ matching = <<>>
    /\ missing = <<>>
    /\ partial = <<>>
    /\ result = pending
    /\ run = 1
    /\ previous = pending
    /\ saveResults = TRUE
    /\ challenge_analysis = <<>>
    /\ persistence = untouched
    /\ llm = notCalled
    /\ NoSubsystems

NextSave ==
    \/ FetchLibrary
    \/ GetPreviousAnalysis
    \/ BuildLookup
    \/ AnalyzeRequirement
    \/ Score
    \/ SaveAnalysisResults

SpecSave == InitSave /\ [][NextSave]_vars

----------------------------------------------------------------------------
(* The two normalizers run on tables that may hold any record.             *)

\* Lines 103-160 of card-analyzer-huggingface.js: getCardLibrary of the
\* Hugging Face analyzer; the analyzer goes on to build its prompt.
FetchLibraryHF ==
    /\ pc = "fetch"
    /\ library' = getCardLibraryHF(documents).cards
    /\ pc' = "prompt"
    /\ UNCHANGED <<inputs, playerLookup, index, matching, missing, partial,
                   result, run, previous>>
    /\ UNCHANGED collaborators
    /\ UNCHANGED subsystems

InitNormalize ==
    /\ documents \in TablesOver(NormalizerContents)
    /\ challenge \in {c \in Challenges : Len(c.required_cards) = 0}
    /\ pc = "fetch"
    /\ library = <<>>
    /\ playerLookup = <<>>
    /\ index = 0
    /\ matching = <<>>
    /\ missing = <<>>
    /\ partial = <<>>
    /\ result = pending
    /\ run = 1
    /\ previous = pending
    /\ NoCollaborators
    /\ NoSubsystems

NextNormalize ==
    \/ FetchLibrary
    \/ FetchLibraryHF

SpecNormalize == InitNormalize /\ [][NextNormalize]_vars

----------------------------------------------------------------------------
(* The model-backed analyzers as processes.                                *)

\* A variant of the inner try of analyzeChallengeWithHF without its catch:
\* the error of the last attempt leaves the analyzer.
CallHuggingFaceUncaught ==
    /\ pc = "prompt"
    /\ llm.analyzer = "huggingface"
    /\ llm.attempt < maxRetries
    /\ \E answered \in BOOLEAN :
       \E response \in IF answered THEN Responses ELSE {[text |-> "", type |-> "none"]} :
       \E attempt \in {llm.attempt + 1} :
           /\ llm' = [llm EXCEPT !.attempt = attempt,
                                 !.outcome = IF answered THEN "answered" ELSE "failed",
                                 !.response = response]
           /\ result' = IF answered THEN parseHFResponse(response, challenge, library)
                        ELSE IF attempt = maxRetries THEN thrownAt("callHuggingFace")
                        ELSE result
           /\ pc' = IF answered \/ attempt = maxRetries THEN "done" ELSE "prompt"
    /\ UNCHANGED <<inputs, library, playerLookup, index, matching, missing, partial,
                   run, previous, saveResults, challenge_analysis, persistence>>
    /\ UNCHANGED subsystems

\* One attempt of callHuggingFace and, when it is the last, what
\* analyzeChallengeWithHF does with its outcome: an attempt fails (an HTTP
\* error, an error field, a rejected fetch) or yields the generated text;
\* a failure before the last attempt is retried, the last one is thrown
\* and caught by the analyzer, which returns the fallback; a text is
\* handed to parseHFResponse.
CallHuggingFace ==
    /\ pc = "prompt"
    /\ llm.analyzer = "huggingface"
    /\ llm.attempt < maxRetries
    /\ \E answered \in BOOLEAN :
       \E response \in IF answered THEN Responses ELSE {[text |-> "", type |-> "none"]} :
       \E attempt \in {llm.attempt + 1} :
           /\ llm' = [llm EXCEPT !.attempt = attempt,
                                 !.outcome = IF answered THEN "answered" ELSE "failed",
                                 !.response = response]
           /\ result' = IF answered THEN parseHFResponse(response, challenge, library)
                        ELSE IF attempt = maxRetries
                        THEN fallbackAnalysisHF(challenge, library)
                        ELSE result
           /\ pc' = IF answered \/ attempt = maxRetries THEN "done" ELSE "prompt"
    /\ UNCHANGED <<inputs, library, playerLookup, index, matching, missing, partial,
                   run, previous, saveResults, challenge_analysis, persistence>>
    /\ UNCHANGED subsystems

\* checkOllamaAvailability: true when /api/tags answers ok, false when it
\* answers otherwise or the request or its body raises.
CheckOllamaAvailability ==
    /\ pc = "availability"
    /\ \E available \in BOOLEAN : llm' = [llm EXCEPT !.available = available]
    /\ pc' = "fetch_ollama"
    /\ UNCHANGED <<inputs, library, playerLookup, index, matching, missing, partial,
                   result, run, previous, saveResults, challenge_analysis, persistence>>
    /\ UNCHANGED subsystems

\* getCardLibrary of the Ollama analyzer (the map callback of the
\* rule-based analyzer, without try/catch) on either branch of the
\* availability check; without Ollama the fallback is returned at once.
FetchLibraryOllama ==
    /\ pc = "fetch_ollama"
    /\ \E lib \in {getCardLibrary(documents)} :
           /\ library' = lib.cards
           /\ IF lib.threw
              THEN /\ result' = thrownAt("getCardLibrary")
                   /\ pc' = "done"
                   /\ llm' = llm
              ELSE IF ~llm.available
              THEN /\ result' = fallbackAnalysisOllama(challenge, lib.cards)
                   /\ pc' = "done"
                   /\ llm' = [llm EXCEPT !.outcome = "unavailable"]
              ELSE /\ result' = result
                   /\ pc' = "generate"
                   /\ llm' = llm
    /\ UNCHANGED <<inputs, playerLookup, index, matching, missing, partial,
                   run, previous, saveResults, challenge_analysis, persistence>>
    /\ UNCHANGED subsystems

\* callOllama and what analyzeChallengeWithOllama does with its outcome:
\* the request fails (and the error is thrown on, and caught by the
\* analyzer, which returns the fallback) or yields the response text,
\* which is handed to parseOllamaResponse.
CallOllama ==
    /\ pc = "generate"
    /\ \E answered \in BOOLEAN :
       \E response \in IF answered THEN Responses ELSE {[text |-> "", type |-> "none"]} :
           /\ llm' = [llm EXCEPT !.attempt = 1,
                                 !.outcome = IF answered THEN "answered" ELSE "failed",
                                 !.response = response]
           /\ result' = IF answered THEN parseOllamaResponse(response, challenge, library)
                        ELSE fallbackAnalysisOllama(challenge, library)
    /\ pc' = "done"
    /\ UNCHANGED <<inputs, library, playerLookup, index, matching, missing, partial,
                   run, previous, saveResults, challenge_analysis, persistence>>
    /\ UNCHANGED subsystems

InitModel ==
    /\ documents \in TablesOver(ModelContents)
    /\ challenge \in {c \in Challenges : Len(c.required_cards) <= 1}
    /\ \E analyzer \in {"huggingface", "ollama"} :
           /\ llm = [analyzer |-> analyzer, available |-> TRUE, attempt |-> 0,
                     outcome |-> "none", response |-> [text |-> "", type |-> "none"]]
           /\ pc = IF analyzer = "huggingface" THEN "fetch" ELSE "availability"
    /\ library = <<>>
    /\ playerLookup = <<>>
    /\ index = 0
    /\ matching = <<>>
    /\ missing = <<>>
    /\ partial = <<>>
    /\ result = pending
    /\ run = 1
    /\ previous = pending
    /\ saveResults = FALSE
    /\ challenge_analysis = <<>>
    /\ persistence = untouched
    /\ NoSubsystems

NextModel ==
    \/ FetchLibraryHF
    \/ CallHuggingFace
    \/ CheckOllamaAvailability
    \/ FetchLibraryOllama
    \/ CallOllama

SpecModel == InitModel /\ [][NextModel]_vars

----------------------------------------------------------------------------
(* The documents table changes between two calls of analyzeChallenge.      *)

\* An id that sorts at position p of the table.
IdAt(docs, p) ==
    LET lo == IF p = 1 THEN 0 ELSE docs[p - 1].id
    IN  IF p > Len(docs) THEN lo + IdOf(1) ELSE (lo + docs[p].id) \div 2

InsertAt(docs, p, row) == SubSeq(docs, 1, p - 1) \o <<row>> \o SubSeq(docs, p, Len(docs))

\* server.js 48-51: a moment is stored in the documents table; .order('id')
\* returns it at the place of its id.  The analysis is then run on the
\* grown table.
InsertRow ==
    /\ pc = "done"
    /\ run < MaxRuns
    /\ Len(documents) < MaxLib
    /\ \E c \in Contents, p \in 1..(Len(documents) + 1) :
           documents' = InsertAt(documents, p, Row(c, IdAt(documents, p)))
    /\ run' = run + 1
    /\ previous' = [documents |-> documents, result |-> result]
    /\ result' = pending
    /\ pc' = "fetch"
    /\ UNCHANGED <<challenge, library, playerLookup, index, matching, missing, partial>>
    /\ UNCHANGED collaborators
    /\ UNCHANGED subsystems

NextGrow ==
    \/ FetchLibrary
    \/ BuildLookup
    \/ AnalyzeRequirement
    \/ Score
    \/ InsertRow

SpecGrow == Init /\ [][NextGrow]_vars

\* The table holds one moment, and then instead of it another one: the
\* analysis of the second table is run after that of the first.
ReplaceRow ==
    /\ pc = "done"
    /\ run < MaxRuns
    /\ Len(documents) = 1
    /\ \E c \in Contents :
           /\ c.content # documents[1].content
           /\ documents' = <<Row(c, documents[1].id)>>
    /\ run' = run + 1
    /\ previous' = [documents |-> documents, result |-> result]
    /\ result' = pending
    /\ pc' = "fetch"
    /\ UNCHANGED <<challenge, library, playerLookup, index, matching, missing, partial>>
    /\ UNCHANGED collaborators
    /\ UNCHANGED subsystems

InitUpgrade ==
    /\ Init
    /\ Len(documents) = 1

NextUpgrade ==
    \/ FetchLibrary
    \/ BuildLookup
    \/ AnalyzeRequirement
    \/ Score
    \/ ReplaceRow

SpecUpgrade == InitUpgrade /\ [][NextUpgrade]_vars

----------------------------------------------------------------------------
(* analyzeChallenge on challenges of one requirement.                      *)

InitMatch ==
    /\ documents \in TablesOver(MatchContents)
    /\ challenge \in {[id |-> "ch1", required_cards |-> <<r>>] : r \in MatchRequirements}
    /\ pc = "fetch"
    /\ library = <<>>
    /\ playerLookup = <<>>
    /\ index = 0
    /\ matching = <<>>
    /\ missing = <<>>
    /\ partial = <<>>
    /\ result = pending
    /\ run = 1
    /\ previous = pending
    /\ NoCollaborators
    /\ NoSubsystems

SpecMatch == InitMatch /\ [][Next]_vars

----------------------------------------------------------------------------
(* callHuggingFace(prompt, maxRetries) on its own: the retry loop.         *)

\* The largest maxRetries callHuggingFace is called with.
MaxAttempts == 3

\* How one request ends: a response with generated text, a response whose
\* body has an error field, HTTP 503, another HTTP error, a rejected fetch.
Replies == {"generated", "errorField", "http503", "http500", "rejected"}

\* result[0]?.generated_text || result.generated_text || ''
GeneratedTexts == {"AVAILABLE: [] MISSING: [] COMPLETION: 0", ""}

\* A variant of the loop body whose 503 branch does not look at the attempt
\* number.
afterAttemptAlwaysWaitingOn503(attempt, retries, reply) ==
    IF reply = "generated" THEN "return"
    ELSE IF reply = "http503" THEN "wait"
    ELSE IF attempt = retries THEN "throw"
    ELSE "wait"

\* The loop body after the request of an attempt: return the text, wait and
\* go round again, or throw.
afterAttempt(attempt, retries, reply) ==
    IF reply = "generated" THEN "return"
    ELSE IF reply = "http503" /\ attempt < retries THEN "wait"
    ELSE IF attempt = retries THEN "throw"
    ELSE "wait"

InitRetry ==
    /\ documents = <<>>
    /\ challenge = [id |-> "", required_cards |-> <<>>]
    /\ pc = "idle"
    /\ library = <<>>
    /\ playerLookup = <<>>
    /\ index = 0
    /\ matching = <<>>
    /\ missing = <<>>
    /\ partial = <<>>
    /\ result = pending
    /\ run = 0
    /\ previous = pending
    /\ saveResults = FALSE
    /\ challenge_analysis = <<>>
    /\ persistence = untouched
    /\ NoSubsystems
    /\ \E retries \in 1..MaxAttempts :
          llm = [called |-> TRUE,
                 maxRetries |-> retries,
                 attempt |-> 1,
                 at |-> "fetch",
                 replies |-> <<>>,
                 returned |-> ""]

\* The request of one attempt and what the loop body makes of its reply.
SendRequest ==
    /\ llm.called
    /\ llm.at = "fetch"
    /\ \E reply \in Replies, text \in GeneratedTexts :
       \E step \in {afterAttempt(llm.attempt, llm.maxRetries, reply)} :
          llm' = [llm EXCEPT
                    !.replies = Append(@, reply),
                    !.at = CASE step = "return" -> "returned"
                             [] step = "throw" -> "thrown"
                             [] step = "wait" -> "wait",
                    !.returned = IF step = "return" THEN text ELSE @]
    /\ UNCHANGED <<documents, challenge, pc, library, playerLookup, index, matching,
                   missing, partial, result, run, previous, saveResults,
                   challenge_analysis, persistence>>
    /\ UNCHANGED subsystems

\* The delay is over: attempt++ and the loop condition; a loop that runs
\* out returns undefined.
NextAttempt ==
    /\ llm.called
    /\ llm.at = "wait"
    /\ llm' = [llm EXCEPT !.attempt = @ + 1,
                          !.at = IF llm.attempt + 1 <= llm.maxRetries
                                 THEN "fetch" ELSE "undefined"]
    /\ UNCHANGED <<documents, challenge, pc, library, playerLookup, index, matching,
                   missing, partial, result, run, previous, saveResults,
                   challenge_analysis, persistence>>
    /\ UNCHANGED subsystems

NextRetry ==
    \/ SendRequest
    \/ NextAttempt

SpecRetry == InitRetry /\ [][NextRetry]_vars

\* Every fetch settles and every timer fires.
SpecRetryFair == SpecRetry /\ WF_vars(NextRetry)

----------------------------------------------------------------------------
(* The challenge scraper: scrapeAllChallenges and its pagination.          *)

\* The analyzer is not running: the scraper, the batch analysis and the
\* import are programs of their own.
NoAnalyzer ==
    /\ documents = <<>>
    /\ challenge = [id |-> "", required_cards |-> <<>>]
    /\ pc = "idle"
    /\ library = <<>>
    /\ playerLookup = <<>>
    /\ index = 0
    /\ matching = <<>>
    /\ missing = <<>>
    /\ partial = <<>>
    /\ result = pending
    /\ run = 0
    /\ previous = pending
    /\ NoCollaborators

analyzer == <<documents, challenge, pc, library, playerLookup, index,
              matching, missing, partial, result, run, previous,
              saveResults, challenge_analysis, persistence, llm>>

\* Challenge cards on the page when the scraper starts: at most MaxCards.
MaxCards == 2

maxPages == 10
maxConsecutiveEmptyPages == 3
maxChallengesPerPage == 20

Min(a, b) == IF a <= b THEN a ELSE b

\* The challenge processSingleChallenge returns for the card at an index.
scrapedChallenge(i) == [card |-> i, requiredCards |-> "scraped", error |-> ""]

\* The placeholder extractChallengeInfo pushes when processing an index fails.
errorPlaceholder(i, message) == [card |-> i, requiredCards |-> "", error |-> message]

\* What one call of processSingleChallenge adds to the list of the pass:
\* a challenge, an entry that carries the navigation error, nothing when the
\* card, its link or its anchor is not found, and the placeholder when the
\* call throws or the 60 seconds run out.
OutcomesOfCard == {"challenge", "navigationError", "skipped", "thrown", "timeout"}

\* The same without the catch inside the loop: a rejected or timed-out
\* invocation leaves nothing in the list.
entryWithoutCatch(i, outcome) ==
    CASE outcome = "challenge" -> <<scrapedChallenge(i)>>
      [] outcome = "navigationError" -> <<errorPlaceholder(i, "navigation failed")>>
      [] outcome \in {"skipped", "thrown", "timeout"} -> <<>>

entryFor(i, outcome) ==
    CASE outcome = "challenge" -> <<scrapedChallenge(i)>>
      [] outcome = "navigationError" -> <<errorPlaceholder(i, "navigation failed")>>
      [] outcome = "skipped" -> <<>>
      [] outcome = "thrown" -> <<errorPlaceholder(i, "processing failed")>>
      [] outcome = "timeout" -> <<errorPlaceholder(i, "Challenge processing timeout")>>

\* extractChallengeInfo on a page of cardCount cards, every card of which
\* goes the same way: the loop starts at the first card of the page and
\* stops after maxChallengesPerPage cards.
RECURSIVE entriesUpTo(_, _)
entriesUpTo(n, outcome) ==
    IF n = 0 THEN <<>> ELSE entriesUpTo(n - 1, outcome) \o entryFor(n, outcome)

extractChallengeInfo(cardCount, containerFound, outcome) ==
    IF ~containerFound THEN <<>>
    ELSE entriesUpTo(Min(cardCount, maxChallengesPerPage), outcome)

\* How the cards of one pass go in the pagination model.
OutcomesOfPass == {"challenge", "skipped"}

InitScrape ==
    /\ NoAnalyzer
    /\ batch = idle
    /\ store = idle
    /\ \E cards \in (0..MaxCards) \cup {maxChallengesPerPage + 1} :
          scraper = [active |-> TRUE,
                     pc |-> "extract",
                     cards |-> cards,
                     allChallenges |-> <<>>,
                     hasMoreChallenges |-> TRUE,
                     pageNumber |-> 1,
                     consecutiveEmptyPages |-> 0,
                     passes |-> 0,
                     emptyRun |-> 0,
                     lastPass |-> <<>>,
                     returned |-> <<>>]

\* One turn of the while loop up to the call of loadMoreChallenges:
\* extractChallengeInfo, then the bookkeeping of empty passes.
ExtractPass ==
    /\ scraper.active
    /\ scraper.pc = "extract"
    /\ scraper.hasMoreChallenges
    /\ scraper.pageNumber <= maxPages
    /\ \E containerFound \in BOOLEAN, outcome \in OutcomesOfPass :
          \E challenges \in {extractChallengeInfo(scraper.cards, containerFound, outcome)} :
             LET empty == Len(challenges) = 0
                 consecutive == IF empty THEN scraper.consecutiveEmptyPages + 1 ELSE 0
                 all == IF empty THEN scraper.allChallenges
                        ELSE scraper.allChallenges \o challenges
                 stop == empty /\ consecutive >= maxConsecutiveEmptyPages
             IN  scraper' = [scraper EXCEPT
                    !.allChallenges = all,
                    !.consecutiveEmptyPages = consecutive,
                    !.passes = @ + 1,
                    !.emptyRun = IF empty THEN @ + 1 ELSE 0,
                    !.lastPass = challenges,
                    !.pc = IF stop THEN "returned" ELSE "loadMore",
                    !.returned = IF stop THEN all ELSE @]
    /\ UNCHANGED <<analyzer, batch, store>>

\* hasMoreChallenges = await loadMoreChallenges(page): true when the page
\* shows more cards than before, false otherwise (a failure included).
LoadMoreChallenges ==
    /\ scraper.active
    /\ scraper.pc = "loadMore"
    /\ \E loaded \in BOOLEAN :
          scraper' = IF loaded
                     THEN [scraper EXCEPT !.cards = @ + 1,
                                          !.hasMoreChallenges = TRUE,
                                          !.pageNumber = @ + 1,
                                          !.pc = "count"]
                     ELSE [scraper EXCEPT !.hasMoreChallenges = FALSE,
                                          !.pc = "returned",
                                          !.returned = scraper.allChallenges]
    /\ UNCHANGED <<analyzer, batch, store>>

\* The card count read after a successful load, which nothing catches, and
\* the page limit checked at the end of the turn.
countAfterLoad(state, counted) ==
    IF ~counted THEN [state EXCEPT !.pc = "thrown"]
    ELSE IF state.pageNumber > maxPages
    THEN [state EXCEPT !.pc = "returned", !.returned = state.allChallenges]
    ELSE [state EXCEPT !.pc = "extract"]

CountAfterLoad ==
    /\ scraper.active
    /\ scraper.pc = "count"
    /\ \E counted \in BOOLEAN : scraper' = countAfterLoad(scraper, counted)
    /\ UNCHANGED <<analyzer, batch, store>>

NextScrape ==
    \/ ExtractPass
    \/ LoadMoreChallenges
    \/ CountAfterLoad

SpecScrape == InitScrape /\ [][NextScrape]_vars

----------------------------------------------------------------------------
(* The challenge scraper: extractChallengeInfo, card by card, with the     *)
(* invocations of processSingleChallenge that share the browser page.      *)

\* No invocation of processSingleChallenge is being awaited.
noInvocation == [card |-> 0, at |-> "none"]

\* The awaits of processSingleChallenge, in order: the card, its details and
\* its anchor are looked up ("started"), the anchor is clicked and the
\* navigation awaited ("ready"), the required cards are read
\* ("onChallenge"), the page goes back to the list ("scraped"), or goes back
\* after a failure inside the try block ("failed").
OutcomesAt(at) ==
    CASE at = "started" -> {"ok", "missing", "error"}
      [] at = "ready" -> {"ok", "error"}
      [] at = "onChallenge" -> {"ok"}
      [] at = "scraped" -> {"ok", "error"}
      [] at = "failed" -> {"ok", "error"}

\* One await of processSingleChallenge: where the invocation is afterwards,
\* how it settled if it did, and whether the step acted on the page.
processSingleChallenge(at, outcome) ==
    CASE at = "started" /\ outcome = "ok" ->
            [at |-> "ready", settled |-> "pending", drives |-> FALSE]
      [] at = "started" /\ outcome = "missing" ->
            [at |-> "ended", settled |-> "skipped", drives |-> FALSE]
      [] at = "started" /\ outcome = "error" ->
            [at |-> "ended", settled |-> "thrown", drives |-> FALSE]
      [] at = "ready" /\ outcome = "ok" ->
            [at |-> "onChallenge", settled |-> "pending", drives |-> TRUE]
      [] at = "ready" /\ outcome = "error" ->
            [at |-> "failed", settled |-> "pending", drives |-> TRUE]
      [] at = "onChallenge" ->
            [at |-> "scraped", settled |-> "pending", drives |-> FALSE]
      [] at = "scraped" /\ outcome = "ok" ->
            [at |-> "ended", settled |-> "challenge", drives |-> TRUE]
      [] at = "scraped" /\ outcome = "error" ->
            [at |-> "failed", settled |-> "pending", drives |-> TRUE]
      [] at = "failed" ->
            [at |-> "ended", settled |-> "navigationError", drives |-> TRUE]

\* Failures and timeouts are followed on the pages of at most MaxCards
\* cards; the page of more cards than the loop processes is scraped without
\* incident.
Eventful(cardCount) == cardCount <= MaxCards

InitExtract ==
    /\ NoAnalyzer
    /\ batch = idle
    /\ store = idle
    /\ \E cardCount \in (0..MaxCards) \cup {maxChallengesPerPage + 1} :
          scraper = [active |-> TRUE,
                     pc |-> "start",
                     cardCount |-> cardCount,
                     challengesToProcess |-> 0,
                     i |-> 0,
                     challenges |-> <<>>,
                     current |-> noInvocation,
                     abandoned |-> {},
                     stale |-> {}]

\* waitForSelector and page.$$: a failure ends the call with the empty list.
StartExtract ==
    /\ scraper.active
    /\ scraper.pc = "start"
    /\ \E containerFound \in BOOLEAN :
          scraper' = IF containerFound
                     THEN [scraper EXCEPT
                             !.challengesToProcess = Min(scraper.cardCount, maxChallengesPerPage),
                             !.i = 1,
                             !.pc = "loop"]
                     ELSE [scraper EXCEPT !.pc = "done"]
    /\ UNCHANGED <<analyzer, batch, store>>

\* The loop calls processSingleChallenge for the next card and awaits the
\* race of the invocation against the timer.
BeginCard ==
    /\ scraper.active
    /\ scraper.pc = "loop"
    /\ scraper.current = noInvocation
    /\ scraper.i <= scraper.challengesToProcess
    /\ scraper' = [scraper EXCEPT !.current = [card |-> scraper.i, at |-> "started"]]
    /\ UNCHANGED <<analyzer, batch, store>>

\* The awaited invocation takes one step; when it settles the loop pushes
\* what it has to push and goes on to the next index.
settle(state, how) ==
    [state EXCEPT !.challenges = @ \o entryFor(state.i, how),
                  !.i = @ + 1,
                  !.current = noInvocation]

StepCard ==
    /\ scraper.active
    /\ scraper.pc = "loop"
    /\ scraper.current # noInvocation
    /\ \E outcome \in OutcomesAt(scraper.current.at) :
          /\ Eventful(scraper.cardCount) \/ outcome = "ok"
          /\ \E step \in {processSingleChallenge(scraper.current.at, outcome)} :
                scraper' = IF step.settled = "pending"
                           THEN [scraper EXCEPT !.current.at = step.at]
                           ELSE settle(scraper, step.settled)
    /\ UNCHANGED <<analyzer, batch, store>>

\* The timer of the race fires first: the loop pushes the placeholder and
\* goes on; the invocation is not cancelled and stays where it was.
ChallengeTimeout ==
    /\ scraper.active
    /\ scraper.pc = "loop"
    /\ scraper.current # noInvocation
    /\ Eventful(scraper.cardCount)
    /\ scraper' = [settle(scraper, "timeout") EXCEPT
                      !.abandoned = @ \cup {scraper.current}]
    /\ UNCHANGED <<analyzer, batch, store>>

\* An invocation the loop no longer awaits takes its next step on the same
\* page; nobody reads how it settles.
StepAbandoned ==
    /\ scraper.active
    /\ \E invocation \in scraper.abandoned :
       \E outcome \in OutcomesAt(invocation.at) :
       \E step \in {processSingleChallenge(invocation.at, outcome)} :
          scraper' = [scraper EXCEPT
             !.abandoned = (@ \ {invocation}) \cup
                (IF step.at = "ended" THEN {}
                 ELSE {[card |-> invocation.card, at |-> step.at]}),
             !.stale = IF step.drives /\ scraper.pc = "loop" /\ scraper.i > invocation.card
                            /\ scraper.current # noInvocation
                       THEN @ \cup {invocation.card}
                       ELSE @]
    /\ UNCHANGED <<analyzer, batch, store>>

\* The loop is through: extractChallengeInfo returns the list.
FinishExtract ==
    /\ scraper.active
    /\ scraper.pc = "loop"
    /\ scraper.current = noInvocation
    /\ scraper.i > scraper.challengesToProcess
    /\ scraper' = [scraper EXCEPT !.pc = "done"]
    /\ UNCHANGED <<analyzer, batch, store>>

NextExtract ==
    \/ StartExtract
    \/ BeginCard
    \/ StepCard
    \/ ChallengeTimeout
    \/ StepAbandoned
    \/ FinishExtract

SpecExtract == InitExtract /\ [][NextExtract]_vars

----------------------------------------------------------------------------
(* analyzeAllChallenges: the batch analysis.                               *)

\* Most challenges getChallengeData() hands the batch.
MaxBatch == 2

RECURSIVE analyzeRequirements(_, _, _, _, _)
\* requiredCards.forEach from requirement k on, as one computation: lists is
\* [matching, missing, partial]; the result is the returned object or what
\* the caller sees when findMatchingCard throws.
analyzeRequirements(required, k, cards, lookup, lists) ==
    IF k > Len(required)
    THEN analysisResult(required, lists.matching, lists.missing, lists.partial, cards)
    ELSE Strict(findMatchingCard(required[k], cards, lookup), LAMBDA found :
            IF found.threw THEN thrownAt("findMatchingCard")
            ELSE Strict(classify(required[k], found), LAMBDA pushed :
                    analyzeRequirements(required, k + 1, cards, lookup,
                        [lists EXCEPT ![pushed.list] = Append(@, pushed.entry)])))

\* analyzeChallenge(challenge.id) as one computation on the rows read.
analyzeChallenge(row, rows) ==
    Strict(getCardLibrary(rows), LAMBDA fetched :
        IF fetched.threw THEN thrownAt("getCardLibrary")
        ELSE IF buildLookupThrows(fetched.cards) THEN thrownAt("analyzeChallenge")
        ELSE Strict(buildLookup(fetched.cards), LAMBDA lookup :
                analyzeRequirements(row.required_cards, 1, fetched.cards, lookup,
                    [matching |-> <<>>, missing |-> <<>>, partial |-> <<>>])))

\* The returned analysis with metadata.challenge_id and
\* metadata.challenge_title.
withMetadata(analysis, row) ==
    [f \in DOMAIN analysis \cup {"challenge_id", "challenge_title"} |->
        IF f = "challenge_id" THEN row.id
        ELSE IF f = "challenge_title" THEN row.title
        ELSE analysis[f]]

\* The entry the catch block of the loop pushes.
errorEntry(message, row) ==
    [error |-> message, challenge_id |-> row.id, challenge_title |-> row.title]

\* results.filter(r => !r.error)
IsSuccessful(entry) == "error" \notin DOMAIN entry \/ entry.error = ""

RECURSIVE sumCompletion(_, _)
\* successful.reduce((sum, r) => sum + r.completion_percentage, 0); a sum
\* with a NaN in it is NaN.
sumCompletion(entries, n) ==
    IF n = 0 THEN 0
    ELSE Strict(sumCompletion(entries, n - 1), LAMBDA sum :
            IF sum = NaN \/ entries[n].completion_percentage = NaN THEN NaN
            ELSE sum + entries[n].completion_percentage)

\* avgCompletion: Math.round of the mean over the successful entries, 0
\* when there is none.
averageCompletion(entries) ==
    Strict(SelectSeq(entries, IsSuccessful), LAMBDA successful :
        IF Len(successful) = 0 THEN 0
        ELSE Strict(sumCompletion(successful, Len(successful)), LAMBDA sum :
                IF sum = NaN THEN NaN
                ELSE (2 * sum + Len(successful)) \div (2 * Len(successful))))

\* The rows of challenges_with_cards the batch may be handed: up to
\* MaxBatch challenges of at most one requirement, with ids and titles of
\* their own.
BatchRows ==
    LET requirementLists == {<<>>} \cup {<<r>> : r \in Requirements}
    IN  {[k \in 1..Len(rs) |-> [id |-> k, title |-> "Challenge " \o ToString(k),
                                 required_cards |-> rs[k]]] :
            rs \in SeqsUpTo(requirementLists, MaxBatch)}

\* The documents tables the batch is run on: at most one row.
BatchTables == {t \in TablesOver(ModelContents) : Len(t) <= 1}

InitBatch ==
    /\ documents \in BatchTables
    /\ challenge = [id |-> "", required_cards |-> <<>>]
    /\ pc = "idle"
    /\ library = <<>>
    /\ playerLookup = <<>>
    /\ index = 0
    /\ matching = <<>>
    /\ missing = <<>>
    /\ partial = <<>>
    /\ result = pending
    /\ run = 0
    /\ previous = pending
    /\ NoCollaborators
    /\ scraper = idle
    /\ store = idle
    /\ \E rows \in BatchRows :
          batch = [active |-> TRUE,
                   at |-> "fetch",
                   view |-> rows,
                   challenges |-> <<>>,
                   i |-> 0,
                   results |-> <<>>,
                   avgCompletion |-> 0]

\* const challenges = await getChallengeData(): a failure is rethrown.
GetChallengeData ==
    /\ batch.active
    /\ batch.at = "fetch"
    /\ \E fetched \in BOOLEAN :
          batch' = IF fetched
                   THEN [batch EXCEPT !.challenges = batch.view, !.i = 1, !.at = "loop"]
                   ELSE [batch EXCEPT !.at = "thrown"]
    /\ UNCHANGED <<analyzer, scraper, store>>

\* A variant of the loop body without its try/catch: a failed analysis
\* leaves analyzeAllChallenges through the outer catch.
AnalyzeNextUncaught ==
    /\ batch.active
    /\ batch.at = "loop"
    /\ batch.i <= Len(batch.challenges)
    /\ \E reachable \in BOOLEAN :
       \E row \in {batch.challenges[batch.i]} :
       \E analysis \in {IF reachable THEN analyzeChallenge(row, documents)
                        ELSE thrownAt("getChallengeData")} :
          batch' = IF analysis.threw
                   THEN [batch EXCEPT !.at = "thrown"]
                   ELSE [batch EXCEPT !.results = Append(@, withMetadata(analysis, row)),
                                      !.i = @ + 1]
    /\ UNCHANGED <<analyzer, scraper, store>>

\* One turn of the loop: analyzeChallenge(challenge.id) returns and its
\* result is pushed, or it throws (the tables cannot be read, or the
\* analysis itself throws) and the error entry is pushed.
AnalyzeNext ==
    /\ batch.active
    /\ batch.at = "loop"
    /\ batch.i <= Len(batch.challenges)
    /\ \E reachable \in BOOLEAN :
       \E row \in {batch.challenges[batch.i]} :
       \E analysis \in {IF reachable THEN analyzeChallenge(row, documents)
                        ELSE thrownAt("getChallengeData")} :
          batch' = [batch EXCEPT
                      !.results = Append(@, IF analysis.threw
                                            THEN errorEntry(analysis.at, row)
                                            ELSE withMetadata(analysis, row)),
                      !.i = @ + 1]
    /\ UNCHANGED <<analyzer, scraper, store>>

\* The summary after the loop, and return results.
Summarize ==
    /\ batch.active
    /\ batch.at = "loop"
    /\ batch.i > Len(batch.challenges)
    /\ batch' = [batch EXCEPT !.avgCompletion = averageCompletion(batch.results),
                              !.at = "returned"]
    /\ UNCHANGED <<analyzer, scraper, store>>

NextBatch ==
    \/ GetChallengeData
    \/ AnalyzeNext
    \/ Summarize

SpecBatch == InitBatch /\ [][NextBatch]_vars

----------------------------------------------------------------------------
(* insertChallengeData: the import of a file of scraped challenges.        *)

\* Most challenges in the file.
MaxFile == 2

\* The url of a challenge the scraper could not open: null in the file.
nullUrl == "null"

\* The challenges a file may hold: two scraped challenges with their
\* required cards and the placeholder of a card that could not be processed.
FileChallenges ==
    { [title |-> "Playoff Heroes", url |-> "/challenges/heroes",
       requiredCards |-> <<[title |-> "Pascal Siakam Moment", rarity |-> "Common"]>>],
      [title |-> "Finals Run", url |-> "/challenges/finals",
       requiredCards |-> <<[title |-> "Jalen Williams Moment", rarity |-> "Rare"],
                           [title |-> "Obi Toppin Moment", rarity |-> "Common"]>>],
      [title |-> "Challenge 1", url |-> nullUrl, requiredCards |-> <<>>] }

Files == SeqsUpTo(FileChallenges, MaxFile)

\* .upsert(challengeData, {onConflict: 'url'}).select().single() on the
\* table whose url is UNIQUE: a row with the same non-null url is updated
\* in place, otherwise a row is inserted (NULLs never conflict).
\* Result: [rows, id] with id the id of the row handed back.
upsert(rows, challengeData, freshId) ==
    IF challengeData.url # nullUrl /\ \E k \in 1..Len(rows) : rows[k].url = challengeData.url
    THEN LET k == CHOOSE j \in 1..Len(rows) : rows[j].url = challengeData.url
         IN  [rows |-> [rows EXCEPT ![k].title = challengeData.title], id |-> rows[k].id]
    ELSE [rows |-> Append(rows, [id |-> freshId, title |-> challengeData.title,
                                 url |-> challengeData.url]),
          id |-> freshId]

\* .delete().eq('challenge_id', id)
deleteCards(cards, id) == SelectSeq(cards, LAMBDA card : card.challenge_id # id)

\* cardsData of a challenge, and .insert(cardsData)
cardsData(listed, id) ==
    [k \in 1..Len(listed) |->
        [challenge_id |-> id, title |-> listed[k].title,
         rarity |-> listed[k].rarity]]

\* The two tables as a reader sees them: the challenges in row order, each
\* with the required cards stored for it, ids left out.
tablesView(rows, cards) ==
    [k \in 1..Len(rows) |->
        [title |-> rows[k].title,
         url |-> rows[k].url,
         requiredCards |->
            LET own == SelectSeq(cards, LAMBDA card : card.challenge_id = rows[k].id)
            IN  [j \in 1..Len(own) |-> [title |-> own[j].title, rarity |-> own[j].rarity]]]]

InitStore ==
    /\ NoAnalyzer
    /\ scraper = idle
    /\ batch = idle
    /\ \E file \in Files :
          store = [active |-> TRUE,
                   at |-> "loop",
                   file |-> file,
                   i |-> 1,
                   successCount |-> 0,
                   errorCount |-> 0,
                   challenges |-> <<>>,
                   required_cards |-> <<>>,
                   nextId |-> 1,
                   run |-> 1,
                   failed |-> FALSE,
                   afterFirst |-> <<>>]

\* One turn of the for loop: the upsert of the challenge, then, when it has
\* required cards, the delete of the stored ones and the insert of the new.
\* Each of the three operations answers or answers with an error.
ProcessChallenge ==
    /\ store.active
    /\ store.at = "loop"
    /\ store.i <= Len(store.file)
    /\ \E upserted \in BOOLEAN, deleted \in BOOLEAN, inserted \in BOOLEAN :
       \E entry \in {store.file[store.i]} :
       \E written \in {upsert(store.challenges, entry, store.nextId)} :
          IF ~upserted
          THEN /\ deleted /\ inserted
               /\ store' = [store EXCEPT !.errorCount = @ + 1, !.i = @ + 1,
                                         !.failed = TRUE]
          ELSE IF Len(entry.requiredCards) = 0
          THEN /\ deleted /\ inserted
               /\ store' = [store EXCEPT !.challenges = written.rows,
                                         !.nextId = @ + 1,
                                         !.successCount = @ + 1,
                                         !.i = @ + 1]
          ELSE store' = [store EXCEPT
                  !.challenges = written.rows,
                  !.nextId = @ + 1,
                  !.required_cards =
                      (IF deleted THEN deleteCards(@, written.id) ELSE @)
                         \o (IF inserted THEN cardsData(entry.requiredCards, written.id)
                             ELSE <<>>),
                  !.errorCount = IF inserted THEN @ ELSE @ + 1,
                  !.successCount = @ + 1,
                  !.failed = @ \/ ~deleted \/ ~inserted,
                  !.i = @ + 1]
    /\ UNCHANGED <<analyzer, scraper, batch>>

\* The loop is through: the counts are logged and the summary shown.
FinishImport ==
    /\ store.active
    /\ store.at = "loop"
    /\ store.i > Len(store.file)
    /\ store' = [store EXCEPT
                   !.at = "done",
                   !.afterFirst = IF store.run = 1
                                  THEN tablesView(store.challenges, store.required_cards)
                                  ELSE @]
    /\ UNCHANGED <<analyzer, scraper, batch>>

\* insertChallengeData is run again on the same file.
ImportAgain ==
    /\ store.active
    /\ store.at = "done"
    /\ store.run < MaxRuns
    /\ store' = [store EXCEPT !.at = "loop", !.i = 1, !.run = @ + 1,
                              !.successCount = 0, !.errorCount = 0]
    /\ UNCHANGED <<analyzer, scraper, batch>>

NextStore ==
    \/ ProcessChallenge
    \/ FinishImport
    \/ ImportAgain

SpecStore == InitStore /\ [][NextStore]_vars

----------------------------------------------------------------------------
(* Properties of the result.                                               *)

\* analyzeChallenge has returned or thrown.
Finished == pc = "done"

\* analyzeChallenge has returned a result.
Returned == pc = "done" /\ ~result.threw

\* The classification a result gives a requirement.
StatusIn(res, required) ==
    IF \E i \in 1..Len(res.matching_cards) : res.matching_cards[i].required = required
    THEN LET i == CHOOSE i \in 1..Len(res.matching_cards) :
                      res.matching_cards[i].required = required
         IN  res.matching_cards[i].match_status
    ELSE IF \E i \in 1..Len(res.partial_matches) : res.partial_matches[i].required = required
    THEN "potential_match"
    ELSE IF \E i \in 1..Len(res.missing_cards) : res.missing_cards[i].required = required
    THEN "missing"
    ELSE "none"

\* The number of requirements the result classifies as ExactMatch or as
\* RarityUpgrade.
MatchedIn(res) ==
    Cardinality({i \in 1..Len(res.matching_cards) :
                    res.matching_cards[i].match_status \in {"exact_match", "rarity_upgrade"}})

\* The cards of the library filed under one of the requirement's candidates.
BucketCards(required, cards) ==
    {cards[j] : j \in {j \in 1..Len(cards) :
        \E k \in 1..Len(playerNamesOf(required.title)) :
            cleanNameOf(cards[j].player_name) = cleanNameOf(playerNamesOf(required.title)[k])}}

\* The card passes the exact test of the requirement.
Qualifies(card, required) ==
    /\ ~matchesRequirementThrowsOf(card, required)
    /\ matchesRequirementOf(card, required)

\* C1: a challenge with zero requirements is analysed without an
\* exception, with completion_percentage 100 and can_complete true.
C1_ZeroRequirements ==
    (Finished /\ Len(requiredCards) = 0) =>
        /\ ~result.threw
        /\ result.completion_percentage = 100
        /\ result.can_complete

\* C2: can_complete is true exactly when the requirements classified
\* ExactMatch or RarityUpgrade are all the requirements; a requirement that
\* is a potential match or missing makes it false.
C2_CanCompleteIffAllMatched ==
    Returned =>
        /\ result.can_complete <=> (MatchedIn(result) = Len(requiredCards))
        /\ (\E i \in 1..Len(requiredCards) :
                StatusIn(result, requiredCards[i]) \in {"potential_match", "missing", "none"})
               => ~result.can_complete

\* C2 case: a finished analysis with a matched requirement and a potential
\* match, which cannot be completed.
C2_PotentialMatchSeen ==
    /\ Returned
    /\ Len(result.matching_cards) >= 1
    /\ Len(result.partial_matches) >= 1
    /\ ~result.can_complete

\* C3: completion_percentage is 100 * matched / total rounded to the
\* nearest integer, lies in 0..100, and is 100 whenever can_complete.
C3_PercentageRounded ==
    Returned =>
        LET cp == result.completion_percentage
            m == MatchedIn(result)
            n == Len(requiredCards)
        IN  /\ cp \in 0..100
            /\ n > 0 => (2 * n * cp <= 200 * m + n /\ 200 * m + n < 2 * n * (cp + 1))
            /\ result.can_complete => cp = 100

\* C4: a requirement for which some card under one of its candidates
\* passes the exact test is classified ExactMatch.
C4_ExactMatchHasPriority ==
    Finished =>
        \A i \in 1..Len(requiredCards) :
            (\E card \in BucketCards(requiredCards[i], library) :
                 Qualifies(card, requiredCards[i]))
            => /\ ~result.threw
               /\ StatusIn(result, requiredCards[i]) = "exact_match"

\* C5: for a rarity text with "or higher tier" and an extracted tier T, a
\* card under a candidate passes the exact test iff its tier is at least
\* T, and then the requirement is an ExactMatch.
C5_OrHigherTierIsExact ==
    Returned =>
        \A i \in 1..Len(requiredCards) :
            LET required == requiredCards[i]
                T == extractRarity(required.rarity)
            IN  (Includes(required.rarity, "or higher tier") /\ Truthy(T)) =>
                    \A card \in BucketCards(required, library) :
                        /\ Qualifies(card, required) <=> OrderGe(cardRarityOf(card), T)
                        /\ OrderGe(cardRarityOf(card), T)
                              => StatusIn(result, required) = "exact_match"

\* The only card of the table of the previous call, and of this one.
CardB == parseCardOf(previous.documents[1])

CardA == library[1]

\* This call read a table holding only A, the previous one a table holding
\* only B; A and B are cards of the same player and A is of a higher tier.
HigherTierInstead ==
    /\ run >= 2
    /\ Finished
    /\ Len(previous.documents) = 1
    /\ Len(library) = 1
    /\ CardA.player_name = CardB.player_name
    /\ OrderGt(cardRarityOf(CardA), cardRarityOf(CardB))

\* B made the requirement an ExactMatch.
ExactBefore(required) ==
    /\ ~previous.result.threw
    /\ StatusIn(previous.result, required) = "exact_match"

MatchedNow(required) ==
    /\ ~result.threw
    /\ StatusIn(result, required) \in {"exact_match", "rarity_upgrade"}

\* C6, as amended: for a requirement whose rarity text names a tier
\* (Common, Rare or Legendary), if the library holding only B makes it an
\* ExactMatch, the library holding only A, the same player's card of a
\* higher tier, makes it an ExactMatch or a RarityUpgrade.
C6_HigherTierStillMatches ==
    HigherTierInstead =>
        \A i \in 1..Len(requiredCards) :
            (Truthy(extractRarity(requiredCards[i].rarity)) /\ ExactBefore(requiredCards[i]))
            => MatchedNow(requiredCards[i])

\* C6 case: a requirement naming a tier, exactly matched by B, is a rarity
\* upgrade with A.
C6_UpgradeSeen ==
    /\ HigherTierInstead
    /\ \E i \in 1..Len(requiredCards) :
           /\ Truthy(extractRarity(requiredCards[i].rarity))
           /\ ExactBefore(requiredCards[i])
           /\ ~result.threw
           /\ StatusIn(result, requiredCards[i]) = "rarity_upgrade"

\* C6, as stated: for every requirement, if the library holding only B
\* makes it an ExactMatch, the library holding only A, the same player's
\* card of a higher tier, makes it an ExactMatch or a RarityUpgrade.
C6_HigherTierStillMatchesAnyRequirement ==
    HigherTierInstead =>
        \A i \in 1..Len(requiredCards) :
            ExactBefore(requiredCards[i]) => MatchedNow(requiredCards[i])

\* The card of the row stored since the previous call.
AddedCard ==
    CHOOSE card \in {library[j] : j \in 1..Len(library)} :
        \A i \in 1..Len(previous.documents) : previous.documents[i].id # card.id

\* This call read the table of the previous call with one more row, whose
\* card exactly satisfies a requirement that was Missing.
GrownByMissingCard ==
    /\ run >= 2
    /\ Finished
    /\ Len(library) = Len(previous.documents) + 1
    /\ ~previous.result.threw
    /\ \E i \in 1..Len(requiredCards) :
           /\ StatusIn(previous.result, requiredCards[i]) = "missing"
           /\ AddedCard \in BucketCards(requiredCards[i], library)
           /\ Qualifies(AddedCard, requiredCards[i])

\* C7: after one card that exactly satisfies a requirement that was Missing
\* is added to the library, completion_percentage has not decreased and
\* every requirement that was an ExactMatch still is.
C7_GrowthIsMonotone ==
    GrownByMissingCard =>
        /\ ~result.threw
        /\ result.completion_percentage >= previous.result.completion_percentage
        /\ \A i \in 1..Len(requiredCards) :
               StatusIn(previous.result, requiredCards[i]) = "exact_match"
               => StatusIn(result, requiredCards[i]) = "exact_match"

\* C8: a second run on the same challenge and the same table gives the
\* result of the first: the same classifications in the same order, matched
\* cards, candidate sets, percentage, can_complete and recommendations.
C8_RerunGivesSameResult ==
    (Finished /\ run >= 2 /\ documents = previous.documents) => result = previous.result

\* C8 case: a second run has returned a result with a matched requirement
\* and a potential match.
C8_SecondRunSeen ==
    /\ Returned
    /\ run >= 2
    /\ documents = previous.documents
    /\ Len(result.matching_cards) >= 1
    /\ Len(result.partial_matches) >= 1

\* C9: on a library from the normalizer and requirements whose title and
\* rarity are strings, findMatchingCard never throws.
C9_MatcherNeverThrows ==
    Finished => ~(result.threw /\ result.at = "findMatchingCard")

\* A record the normalizer cannot parse into a card: no string, or fewer
\* than three ' - ' segments.
Malformed(doc) ==
    \/ doc.content_type # "string"
    \/ Len(Split(doc.content, " - ")) < 3

\* C10: the normalizer does not raise; its output has one card per record
\* in the order of the records, a malformed record giving the card named
\* 'Unknown' or 'Parse Error'.
C10_NormalizerNeverRaises ==
    pc # "fetch" =>
        /\ ~(pc = "done" /\ result.threw)
        /\ Len(library) = Len(documents)
        /\ \A i \in 1..Len(library) :
               /\ library[i].id = documents[i].id
               /\ Malformed(documents[i])
                     => library[i].player_name \in {"Unknown", "Parse Error"}

\* The text has a space-delimited token longer than 2 characters.
HasLongToken(text) ==
    \E i \in 1..Len(Split(text, " ")) : Len(Split(text, " ")[i]) > 2

\* The text contains the name of a known player or the alias, in any
\* letter case.
NamesKnownPlayer(text) ==
    \/ \E i \in 1..Len(knownPlayers) :
           Includes(ToLowerCase(text), ToLowerCase(knownPlayers[i]))
    \/ Includes(ToLowerCase(text), "sga")

\* The text up to its first space.
FirstWord(text) == Split(text, " ")[1]

HasAlias(title) == Includes(ToLowerCase(title), "sga")

\* The card has exactly the tier the rarity text names, if it names one.
TierSatisfied(card, required) ==
    Truthy(extractRarity(required.rarity))
        => cardRarityOf(card) = extractRarity(required.rarity)

\* The card is of a playoffs series if the rarity text asks for one.
SeriesSatisfied(card, required) ==
    Includes(required.rarity, "2025 NBA Playoffs")
        => /\ HasField(card, "series")
           /\ (Includes(card.series, "2025") \/ Includes(card.series, "Playoffs"))

\* The cards of the library with the canonical name of the alias.
AliasCards == {library[j] : j \in {j \in 1..Len(library) :
                  library[j].player_name = "Shai Gilgeous-Alexander"}}

\* The canonical name is in the candidate list exactly once.
CanonicalOnce(title) ==
    Cardinality({k \in 1..Len(playerNamesOf(title)) :
                    playerNamesOf(title)[k] = "Shai Gilgeous-Alexander"}) = 1

\* C12, as amended: a requirement whose title holds the alias "SGA" in any
\* letter case is an ExactMatch whenever the library holds a card of Shai
\* Gilgeous-Alexander that has the tier the rarity text names and, if the
\* text contains "2025 NBA Playoffs", a series containing "2025" or
\* "Playoffs"; the canonical name is in the candidate list once.
C12_AliasResolvedToExactMatch ==
    Finished =>
        \A i \in 1..Len(requiredCards) :
            HasAlias(requiredCards[i].title) =>
                /\ CanonicalOnce(requiredCards[i].title)
                /\ (\E card \in AliasCards :
                        /\ TierSatisfied(card, requiredCards[i])
                        /\ SeriesSatisfied(card, requiredCards[i]))
                   => /\ ~result.threw
                      /\ StatusIn(result, requiredCards[i]) = "exact_match"

\* C12 case: a title naming the player by the alias only is exactly matched
\* by a card of Shai Gilgeous-Alexander.
C12_AliasMatchSeen ==
    /\ Returned
    /\ \E i \in 1..Len(result.matching_cards) :
           /\ HasAlias(result.matching_cards[i].required.title)
           /\ ~Includes(ToLowerCase(result.matching_cards[i].required.title), "shai")
           /\ result.matching_cards[i].match_status = "exact_match"
           /\ result.matching_cards[i].library_match.player_name = "Shai Gilgeous-Alexander"

\* C12, as stated: a requirement whose title holds the alias is an
\* ExactMatch whenever the library holds a card of Shai Gilgeous-Alexander
\* that has the tier the rarity text names; the canonical name is in the
\* candidate list once.
C12_AliasResolvedWheneverTierSatisfied ==
    Finished =>
        \A i \in 1..Len(requiredCards) :
            HasAlias(requiredCards[i].title) =>
                /\ CanonicalOnce(requiredCards[i].title)
                /\ (\E card \in AliasCards : TierSatisfied(card, requiredCards[i]))
                   => /\ ~result.threw
                      /\ StatusIn(result, requiredCards[i]) = "exact_match"

\* analyzeChallenge returned and classified the requirement RarityUpgrade.
IsRarityUpgrade(required) ==
    /\ ~result.threw
    /\ StatusIn(result, required) = "rarity_upgrade"

\* C13: a requirement with an extracted tier T is a RarityUpgrade exactly
\* when no card under its candidates passes the exact test and some card
\* under a candidate has a tier strictly above T; a requirement without
\* an extractable tier is never a RarityUpgrade.
C13_UpgradeIffHigherTierOnly ==
    Finished =>
        \A i \in 1..Len(requiredCards) :
            LET required == requiredCards[i]
                T == extractRarity(required.rarity)
                bucket == BucketCards(required, library)
            IN  IF Truthy(T)
                THEN IsRarityUpgrade(required)
                         <=> /\ \A card \in bucket : ~Qualifies(card, required)
                             /\ \E card \in bucket : OrderGt(cardRarityOf(card), T)
                ELSE ~IsRarityUpgrade(required)

\* C14: when a requirement whose rarity text contains "2025 NBA Playoffs"
\* is an ExactMatch or a RarityUpgrade, the series of the matched card
\* contains "2025" or "Playoffs".
C14_MatchedCardIsOfPlayoffsSeries ==
    Returned =>
        \A i \in 1..Len(result.matching_cards) :
            LET entry == result.matching_cards[i]
            IN  Includes(entry.required.rarity, "2025 NBA Playoffs") =>
                    /\ HasField(entry.library_match, "series")
                    /\ \/ Includes(entry.library_match.series, "2025")
                       \/ Includes(entry.library_match.series, "Playoffs")

\* The entry of the requirement in missing_cards.
MissingEntry(res, required) ==
    res.missing_cards[CHOOSE i \in 1..Len(res.missing_cards) :
                          res.missing_cards[i].required = required]

\* C15: a requirement without a candidate, or analysed against an empty
\* library, is Missing with the reason 'No matching player found in
\* library' and no exception; a challenge of one requirement against an
\* empty library has completion_percentage 0 and can_complete false.
C15_NoCandidateOrEmptyLibraryIsMissing ==
    Finished =>
        /\ \A i \in 1..Len(requiredCards) :
               (Len(playerNamesOf(requiredCards[i].title)) = 0 \/ Len(documents) = 0)
               => /\ ~result.threw
                  /\ StatusIn(result, requiredCards[i]) = "missing"
                  /\ MissingEntry(result, requiredCards[i]).reason
                         = "No matching player found in library"
        /\ (Len(requiredCards) = 1 /\ Len(documents) = 0)
               => /\ ~result.threw
                  /\ result.completion_percentage = 0
                  /\ ~result.can_complete

\* The number of entries of a result list with the status.
StatusCount(entries, status) ==
    Cardinality({i \in 1..Len(entries) : entries[i].match_status = status})

\* The notes, as a function of the four counts, in the order of emission.
NotesFor(exact, upgrade, missingCount, potential) ==
    LET note(cond, text) == IF cond THEN <<text>> ELSE <<>>
    IN  note(exact >= 1,
             "You have " \o ToString(exact) \o " exact matches - great collection!")
     \o note(upgrade >= 1,
             "You have " \o ToString(upgrade)
                 \o " higher rarity cards that can fulfill requirements")
     \o note(missingCount >= 1,
             "Need to acquire " \o ToString(missingCount) \o " cards to complete challenge")
     \o note(missingCount >= 1, "Check NBA Top Shot marketplace for missing cards")
     \o note(potential >= 1,
             ToString(potential) \o " potential matches found - verify manually")
     \o note(exact + upgrade = 0 /\ missingCount >= 1,
             "Focus on acquiring any card from this challenge first")

\* C16: the recommendations are a function of the four counts: the notes
\* whose conditions hold, in the fixed order, and then always the closing
\* suggestion about alternative series, so the list is never empty.
C16_RecommendationsFollowCounts ==
    Returned =>
        LET recs == result.recommendations
            notes == NotesFor(StatusCount(result.matching_cards, "exact_match"),
                              StatusCount(result.matching_cards, "rarity_upgrade"),
                              Len(result.missing_cards),
                              Len(result.partial_matches))
        IN  /\ Len(recs) >= 1
            /\ recs[Len(recs)] = "Consider checking for alternative series or special editions"
            /\ SubSeq(recs, 1, Len(recs) - 1) = notes

\* C16 case: a result with a missing requirement and a potential match,
\* whose notes come in the fixed order.
C16_SeveralNotesSeen ==
    /\ Returned
    /\ Len(result.missing_cards) >= 1
    /\ Len(result.partial_matches) >= 1
    /\ Len(result.recommendations) >= 5

\* A read or an insert of challenge_analysis failed in this call.
PersistenceFailed ==
    \/ persistence.read \in {"error", "thrown"}
    \/ persistence.insert \in {"error", "thrown"}

\* The result without its database_record_id.
WithoutRecordId(res) == [f \in DOMAIN res \ {"database_record_id"} |-> res[f]]

\* This call had saveResults and a persistence failure; the call before, on
\* the same challenge and table, had no saveResults.
FailedAfterPlainRun ==
    /\ Finished
    /\ run >= 2
    /\ saveResults
    /\ PersistenceFailed
    /\ ~previous.saveResults
    /\ documents = previous.documents

\* C17: when the read of the previous analysis or the insert of the new
\* record fails, analyzeChallenge with saveResults ends as a call without
\* saveResults does, with the same can_complete, completion_percentage,
\* lists and recommendations; a failed insert leaves database_record_id
\* absent.
C17_PersistenceFailureLeavesAnalysis ==
    FailedAfterPlainRun =>
        /\ WithoutRecordId(result) = previous.result
        /\ persistence.insert \in {"error", "thrown"}
               => "database_record_id" \notin DOMAIN result

\* C17 case: the insert threw after an analysis with a matched requirement.
C17_FailedInsertSeen ==
    /\ FailedAfterPlainRun
    /\ persistence.insert = "thrown"
    /\ ~result.threw
    /\ Len(result.matching_cards) >= 1

\* The language-model call of a finished analysis failed: the last
\* Hugging Face attempt, the Ollama generate call, or the Ollama
\* availability check; the reads of challenge and library had succeeded.
ModelCallFailed ==
    /\ Finished
    /\ llm.outcome \in {"failed", "unavailable"}

\* C18: when the reads succeed and the language-model call fails (every
\* Hugging Face attempt, the Ollama availability check or the Ollama
\* generate call), the analyzer does not throw and returns the fallback
\* result, with analysis_method 'rule_based_fallback', that its
\* fallbackAnalysis computes from the challenge and the library in memory.
C18_FallbackOnModelFailure ==
    ModelCallFailed =>
        /\ ~result.threw
        /\ result.analysis_method = "rule_based_fallback"
        /\ result = IF llm.analyzer = "huggingface"
                    THEN fallbackAnalysisHF(challenge, library)
                    ELSE fallbackAnalysisOllama(challenge, library)

\* C18 case: every Hugging Face attempt failed and the fallback matched a
\* requirement.
C18_AllRetriesFailedSeen ==
    /\ ModelCallFailed
    /\ llm.analyzer = "huggingface"
    /\ llm.attempt = maxRetries
    /\ ~result.threw
    /\ Len(result.matching_cards) >= 1

\* The text holds none of the markers either prompt asks for.
NoMarkers(text) ==
    \A marker \in {"available:", "matches:", "missing:", "completion:"} :
        ~Includes(ToLowerCase(text), marker)

\* C19: when the language model answers with a text that holds none of the
\* expected markers, the analyzer returns the rule-based fallback result
\* (analysis_method 'rule_based_fallback'), not a model-attributed one.
C19_UnparseableOutputFallsBack ==
    (/\ Finished
     /\ llm.outcome = "answered"
     /\ llm.response.type = "string"
     /\ NoMarkers(llm.response.text))
        => /\ ~result.threw
           /\ result.analysis_method = "rule_based_fallback"

\* The cards the normalizer made of well-formed records: those with a
\* series.
CardsWithSeries == {library[i] : i \in {k \in 1..Len(library) : HasField(library[k], "series")}}

\* C20: every card the normalizer makes of a well-formed record has rarity
\* Rare iff its series text contains "Metallic Gold" or "LE", and Common
\* otherwise; no card of the library has rarity Legendary.
C20_RarityFollowsSeries ==
    /\ \A card \in CardsWithSeries :
           /\ card.rarity \in {"Rare", "Common"}
           /\ card.rarity = "Rare"
                  <=> (Includes(card.series, "Metallic Gold") \/ Includes(card.series, "LE"))
    /\ \A i \in 1..Len(library) : cardRarityOf(library[i]) # "Legendary"

\* C20 case: the normalizer has made a Rare card of a Metallic Gold series
\* without LE beside a Common card.
C20_MetallicGoldSeen ==
    /\ pc # "fetch"
    /\ \E card \in CardsWithSeries :
           /\ Includes(card.series, "Metallic Gold")
           /\ ~Includes(card.series, "LE")
           /\ card.rarity = "Rare"
    /\ \E card \in CardsWithSeries : card.rarity = "Common"

----------------------------------------------------------------------------
(* Properties of the scraper's pagination.                                 *)

\* scrapeAllChallenges has ended, by returning or by throwing.
ScrapeEnded == scraper.active /\ scraper.pc \in {"returned", "thrown"}

\* The cards of the entries of a list, in list order.
cardsOf(list) == [k \in 1..Len(list) |-> list[k].card]

\* No more than maxPages passes and no more than maxConsecutiveEmptyPages
\* empty passes in a row.
PaginationBounded ==
    scraper.active =>
        /\ scraper.passes <= maxPages
        /\ scraper.emptyRun <= maxConsecutiveEmptyPages

\* C21: scrapeAllChallenges makes at most maxPages extraction passes, never
\* more than three empty passes in a row, and when it ends it has returned
\* the list it accumulated.
C21_PaginationEndsWithAccumulatedList ==
    /\ PaginationBounded
    /\ ScrapeEnded =>
          /\ scraper.pc = "returned"
          /\ scraper.returned = scraper.allChallenges

\* C29: the returned list holds no card twice, and when the last pass found
\* challenges every card of the page is in the list.
C29_EachCardOnceAndEveryCardCovered ==
    (scraper.active /\ scraper.pc = "returned") =>
        /\ \A k, l \in 1..Len(scraper.returned) :
              scraper.returned[k].card = scraper.returned[l].card => k = l
        /\ Len(scraper.lastPass) > 0 =>
              \A c \in 1..scraper.cards :
                 \E k \in 1..Len(scraper.returned) : scraper.returned[k].card = c

----------------------------------------------------------------------------
(* Properties of extractChallengeInfo.                                     *)

\* An entry that stands for a failed challenge: no required cards, error set.
IsErrorEntry(entry) == entry.requiredCards = "" /\ entry.error # ""

\* The loop is awaiting the invocation for a card.
AwaitingCard == scraper.active /\ scraper.pc = "loop" /\ scraper.current # noInvocation

\* The awaited invocation has just failed: it rejected, it came back with a
\* navigation error, or the timer fired first.
CardFailed ==
    /\ AwaitingCard
    /\ scraper'.i = scraper.i + 1
    /\ \/ scraper.current \in scraper'.abandoned \ scraper.abandoned
       \/ \E outcome \in OutcomesAt(scraper.current.at) :
             processSingleChallenge(scraper.current.at, outcome).settled
                \in {"thrown", "navigationError"}
             /\ scraper' = settle(scraper,
                   processSingleChallenge(scraper.current.at, outcome).settled)

\* The list is in card order and no longer than the indices gone through,
\* which never exceed min(cardCount, maxChallengesPerPage).
InCardOrder(state) ==
    /\ \A k, l \in 1..Len(state.challenges) :
          k < l => state.challenges[k].card < state.challenges[l].card
    /\ Len(state.challenges) > 0 \/ state.i > 0 =>
          /\ Len(state.challenges) <= state.i - 1
          /\ state.i - 1 <= Min(state.cardCount, maxChallengesPerPage)
          /\ \A k \in 1..Len(state.challenges) : state.challenges[k].card < state.i

\* C22: a failure or a timeout at a card appends the error placeholder of
\* that card and moves the loop to the next index; the list stays in card
\* order and never has more entries than indices gone through.
C22_FailedCardLeavesPlaceholderAndLoopGoesOn ==
    [][/\ CardFailed =>
             /\ Len(scraper'.challenges) = Len(scraper.challenges) + 1
             /\ SubSeq(scraper'.challenges, 1, Len(scraper.challenges)) = scraper.challenges
             /\ scraper'.challenges[Len(scraper'.challenges)].card = scraper.i
             /\ IsErrorEntry(scraper'.challenges[Len(scraper'.challenges)])
             /\ scraper'.pc = "loop"
             /\ scraper'.current = noInvocation
       /\ InCardOrder(scraper')]_vars

\* A card timed out and a later card of the same call was scraped.
C22_PlaceholderThenChallengeSeen ==
    /\ scraper.active
    /\ scraper.pc = "done"
    /\ \E k, l \in 1..Len(scraper.challenges) :
          /\ k < l
          /\ scraper.challenges[k].error = "Challenge processing timeout"
          /\ scraper.challenges[l] = scrapedChallenge(scraper.challenges[l].card)

\* C28: no invocation of processSingleChallenge acts on the page once the
\* loop is processing a later card.
C28_OnlyAwaitedInvocationDrivesPage ==
    scraper.active => scraper.stale = {}

----------------------------------------------------------------------------
(* Properties of the matcher across candidate names.                       *)

\* The bucket of the k-th candidate name of a requirement.
CandidateBucket(required, k) ==
    LET cleanName == cleanNameOf(playerNamesOf(required.title)[k])
    IN  IF cleanName \in DOMAIN playerLookup THEN playerLookup[cleanName] ELSE <<>>

\* The candidate names of a requirement whose bucket holds an upgrade.
UpgradeCandidates(required) ==
    {k \in 1..Len(playerNamesOf(required.title)) :
        findUpgrade(CandidateBucket(required, k), required) # null}

\* The first upgrade of the earliest candidate name that has one.
FirstUpgrade(required) ==
    LET first == CHOOSE k \in UpgradeCandidates(required) :
                     \A l \in UpgradeCandidates(required) : k <= l
    IN  findUpgrade(CandidateBucket(required, first), required)

\* C23: when the buckets of two or more candidate names hold an upgrade, the
\* matched card of a RarityUpgrade is the first upgrade of the earliest such
\* candidate.
C23_FirstUpgradeWins ==
    Returned =>
        \A i \in 1..Len(result.matching_cards) :
            LET entry == result.matching_cards[i]
            IN  (/\ entry.match_status = "rarity_upgrade"
                 /\ Cardinality(UpgradeCandidates(entry.required)) >= 2)
                => entry.library_match = FirstUpgrade(entry.required)

----------------------------------------------------------------------------
(* Properties of the normalizer's segments.                                *)

\* The position after the second ' - ' of a text with at least two.
AfterSecondDelimiter(content) ==
    IndexOfFrom(content, " - ", IndexOfFrom(content, " - ", 1) + 3) + 3

\* The position of the third ' - ', 0 when there is none.
ThirdDelimiter(content) == IndexOfFrom(content, " - ", AfterSecondDelimiter(content))

\* The text between the second ' - ' and the third, or the end.
ThirdSegment(content) ==
    SubSeq(content, AfterSecondDelimiter(content),
           IF ThirdDelimiter(content) = 0 THEN Len(content)
           ELSE ThirdDelimiter(content) - 1)

\* Everything after the second ' - '.
AfterSecond(content) == SubSeq(content, AfterSecondDelimiter(content), Len(content))

\* The records the normalizer has made cards of, with at least three segments.
NormalizedWellFormed ==
    {i \in 1..Len(library) :
        /\ Len(library) = Len(documents)
        /\ ~Malformed(documents[i])}

\* C24, as amended: the series and team of a card are the second and third
\* ', ' fields of the third ' - ' segment alone; what follows a third ' - '
\* is in no field but original_content.
C24_SeriesAndTeamFromThirdSegmentAlone ==
    \A i \in NormalizedWellFormed :
        LET fields == Split(Trim(ThirdSegment(documents[i].content)), ", ")
        IN  /\ library[i].series = ElemOrEmpty(fields, 2)
            /\ library[i].team = ElemOrEmpty(fields, 3)
            /\ library[i].original_content = documents[i].content

\* C24 case: a record with three ' - ' delimiters has been normalized.
C24_FourSegmentsSeen ==
    \E i \in NormalizedWellFormed :
        /\ ThirdDelimiter(documents[i].content) # 0
        /\ library[i].series = "Base Set"
        /\ library[i].team = ""

\* C24, as stated: the series and team of a card are the second and third
\* ', ' fields of everything after the second ' - '.
C24_SeriesAndTeamFromWholeRemainder ==
    \A i \in NormalizedWellFormed :
        LET fields == Split(Trim(AfterSecond(documents[i].content)), ", ")
        IN  /\ library[i].series = ElemOrEmpty(fields, 2)
            /\ library[i].team = ElemOrEmpty(fields, 3)

----------------------------------------------------------------------------
(* Properties of the result lists.                                         *)

\* The requirements of the entries of a list, in list order.
RequiredOf(list) == [k \in 1..Len(list) |-> list[k].required]

\* The requirements at the positions given a list by an assignment of the
\* positions to the lists, in requirement order.
RECURSIVE AssignedTo(_, _, _)
AssignedTo(assignment, list, n) ==
    IF n = 0 THEN <<>>
    ELSE AssignedTo(assignment, list, n - 1)
            \o (IF assignment[n] = list THEN <<requiredCards[n]>> ELSE <<>>)

\* Each position of requiredCards is in exactly one of the three lists of
\* the result, and each list is in requirement order.
Partitioned(res) ==
    \E assignment \in [1..Len(requiredCards) -> {"matching", "partial", "missing"}] :
        /\ RequiredOf(res.matching_cards)
              = AssignedTo(assignment, "matching", Len(requiredCards))
        /\ RequiredOf(res.partial_matches)
              = AssignedTo(assignment, "partial", Len(requiredCards))
        /\ RequiredOf(res.missing_cards)
              = AssignedTo(assignment, "missing", Len(requiredCards))

\* C25: in a returned analysis every requirement is in exactly one of
\* matching_cards (as ExactMatch or RarityUpgrade), partial_matches (as
\* PotentialMatch) and missing_cards, each list is in requirement order,
\* the four counts of stats add up to the number of requirements, and so
\* does total_required_cards of the row saved for the analysis.
C25_RequirementsPartitionedAndCounted ==
    Returned =>
        /\ Partitioned(result)
        /\ \A k \in 1..Len(result.matching_cards) :
              result.matching_cards[k].match_status \in {"exact_match", "rarity_upgrade"}
        /\ \A k \in 1..Len(result.partial_matches) :
              result.partial_matches[k].match_status = "potential_match"
        /\ result.stats.exact_matches + result.stats.rarity_upgrades
              + result.stats.potential_matches + result.stats.missing
              = Len(requiredCards)
        /\ \A k \in 1..Len(challenge_analysis) :
              challenge_analysis[k].total_required_cards = Len(requiredCards)

\* C25 case: an analysis of two requirements that went to different lists
\* has been returned and saved.
C25_SavedMixedResultSeen ==
    /\ Returned
    /\ Len(requiredCards) = 2
    /\ Len(result.matching_cards) = 1
    /\ Len(result.partial_matches) + Len(result.missing_cards) = 1
    /\ Len(challenge_analysis) > 0

----------------------------------------------------------------------------
(* Properties of callHuggingFace.                                          *)

\* callHuggingFace is running on its own.
Retrying == llm.called /\ "maxRetries" \in DOMAIN llm

\* callHuggingFace has returned or thrown.
RetryEnded == Retrying /\ llm.at \in {"returned", "thrown", "undefined"}

\* The requests sent so far and their replies.
RequestsSent == Len(llm.replies)

FailedReply(k) == llm.replies[k] # "generated"

\* The safety part of C26.
RetryBounded ==
    Retrying =>
        /\ RequestsSent <= llm.maxRetries
        /\ llm.at # "undefined"
        /\ llm.at = "returned" =>
              /\ ~FailedReply(RequestsSent)
              /\ \A k \in 1..(RequestsSent - 1) : FailedReply(k)
              /\ llm.returned \in GeneratedTexts
        /\ llm.at = "thrown" =>
              /\ RequestsSent = llm.maxRetries
              /\ \A k \in 1..RequestsSent : FailedReply(k)
        /\ llm.at = "wait" =>
              /\ RequestsSent = llm.attempt
              /\ llm.attempt < llm.maxRetries
              /\ FailedReply(RequestsSent)
        /\ llm.at = "fetch" =>
              /\ RequestsSent = llm.attempt - 1
              /\ \A k \in 1..RequestsSent : FailedReply(k)

\* C26: callHuggingFace with maxRetries = N sends at most N requests,
\* returns on the first reply with generated text, waits and retries after
\* every failed attempt before the N-th, throws only when the N-th attempt
\* has failed, and ends.
C26_AtMostMaxRetriesRequestsThenEnds ==
    /\ []RetryBounded
    /\ <>RetryEnded

\* C26 case: a call with N = 3 threw after a 503 and two other failures.
C26_ThrownAfterThreeFailuresSeen ==
    /\ Retrying
    /\ llm.maxRetries = 3
    /\ llm.at = "thrown"
    /\ llm.replies[1] = "http503"
    /\ llm.replies[3] = "http503"

----------------------------------------------------------------------------
(* Properties of the batch analysis.                                       *)

\* The entries of the batch that carry no error.
SuccessfulEntries == {k \in 1..Len(batch.results) : "error" \notin DOMAIN batch.results[k]}

RECURSIVE SumOver(_)
SumOver(ks) ==
    IF ks = {} THEN 0
    ELSE LET k == CHOOSE x \in ks : TRUE
         IN  batch.results[k].completion_percentage + SumOver(ks \ {k})

\* C27: a failed analysis leaves an error entry and the loop goes on: once
\* the challenges are fetched the batch does not throw, entry k belongs to
\* challenge k and is its analysis or an error entry with its id and title,
\* and the returned list has one entry per fetched challenge with the
\* average taken over the entries without error.
C27_FailuresIsolated ==
    batch.active =>
        /\ batch.at = "thrown" => (batch.i = 0 /\ batch.results = <<>>)
        /\ batch.at = "loop" => Len(batch.results) = batch.i - 1
        /\ \A k \in 1..Len(batch.results) :
              /\ batch.results[k].challenge_id = batch.challenges[k].id
              /\ batch.results[k].challenge_title = batch.challenges[k].title
              /\ "error" \in DOMAIN batch.results[k] =>
                    /\ DOMAIN batch.results[k] = {"error", "challenge_id", "challenge_title"}
                    /\ batch.results[k].error # ""
        /\ batch.at = "returned" =>
              /\ Len(batch.results) = Len(batch.challenges)
              /\ batch.challenges = batch.view
              /\ IF SuccessfulEntries = {} THEN batch.avgCompletion = 0
                 ELSE IF \E k \in SuccessfulEntries :
                            batch.results[k].completion_percentage = NaN
                 THEN batch.avgCompletion = NaN
                 ELSE /\ 2 * batch.avgCompletion * Cardinality(SuccessfulEntries)
                            <= 2 * SumOver(SuccessfulEntries) + Cardinality(SuccessfulEntries)
                      /\ 2 * SumOver(SuccessfulEntries) + Cardinality(SuccessfulEntries)
                            < 2 * (batch.avgCompletion + 1) * Cardinality(SuccessfulEntries)

\* C27 case: the first of two analyses failed, the second returned with a
\* completion of 100, and the batch returned with that average.
C27_FailureThenSuccessSeen ==
    /\ batch.active
    /\ batch.at = "returned"
    /\ Len(batch.results) = 2
    /\ "error" \in DOMAIN batch.results[1]
    /\ "error" \notin DOMAIN batch.results[2]
    /\ batch.results[2].completion_percentage = 100
    /\ batch.avgCompletion = 100

----------------------------------------------------------------------------
(* Properties of the import.                                               *)

\* The distinct challenges of the file.
ScrapedChallenges == {store.file[k] : k \in 1..Len(store.file)}

\* A run of insertChallengeData has ended and no operation of the store has
\* failed so far.
ImportedWithoutFailure == store.active /\ store.at = "done" /\ ~store.failed

\* C30: on a store whose operations succeed, after every run on the same
\* file the tables hold what they held after the first run, one challenge
\* row per scraped challenge with exactly the required cards the file lists
\* for it, and successCount + errorCount is the number of challenges in the
\* file.
C30_ImportIdempotent ==
    ImportedWithoutFailure =>
        LET view == tablesView(store.challenges, store.required_cards)
        IN  /\ view = store.afterFirst
            /\ Len(view) = Cardinality(ScrapedChallenges)
            /\ \A k \in 1..Len(view) : view[k] \in ScrapedChallenges
            /\ store.successCount + store.errorCount = Len(store.file)

====
